---- MODULE Spec2Model ----
(***************************************************************************)
(* Model of the task-processing engine of cmd/advanced/main.go:            *)
(*   - WorkerPool: Submit, worker, processTask, routeTask, resultCollector *)
(*     and Shutdown (specifications Spec, SpecFair, SpecWorkers), its      *)
(*     result pool (SpecResults) and GetStats (SpecStats);                 *)
(*   - RateLimiter: refillTokens and Acquire (SpecLimiter,                 *)
(*     SpecLimiterFair);                                                   *)
(*   - routeTask and Validate as functions of a task (SpecRoute,           *)
(*     SpecValidate);                                                      *)
(*   - MemoryManager.TrackAllocation (SpecMemory);                         *)
(* and of the deck of unnamed/part_004 (SpecDeck).                         *)
(* Go channel semantics are modelled as the runtime implements them: a     *)
(* select evaluates its cases atomically and picks any ready one; a        *)
(* goroutine that finds no case ready parks and is completed by the        *)
(* operation that wakes it (a send hands its value to a parked receiver,   *)
(* close hands the zero value to every parked receiver); a send on a       *)
(* closed channel is a ready case that panics; a panic that is not         *)
(* recovered ends the process.                                             *)
(***************************************************************************)
EXTENDS Integers, Sequences, FiniteSets, TLC

\* ------------------------------------------------------------------ bounds
\* Largest queueSize NewWorkerPool is called with (0 = unbuffered hand-off).
MaxQueue == 1
\* Number of Submit calls made in a behaviour.
MaxSubmits == 2
\* Largest maxTokens NewRateLimiter is called with.
MaxTokensBound == 2
\* Number of Acquire calls each caller makes.
MaxCalls == 2
\* Refill ticks followed between two tokens taken: one more than fills the
\* bucket.
MaxTicks == MaxTokensBound + 1
\* Longest card name and largest deck among the decks built by hand.
MaxNameLen == 2
MaxDeckLen == 2
\* The longest deck shuffle is called on.
MaxShuffleLen == 3
\* TrackAllocation calls each goroutine makes, and the largest size passed.
MaxTrackCalls == 2
MaxSize == 2

\* The goroutines started by NewWorkerPool (workers is fixed at construction).
Workers == {"w1", "w2"}
\* The goroutines that call Shutdown, named in the order in which they reach
\* shutdownOnce.Do: s1 is the first to call, s2 any later caller.
ShutdownCallers == {"s1", "s2"}
\* The goroutines that call Acquire.
Callers == {"a1", "a2"}
\* The goroutines that call TrackAllocation.
Trackers == {"t1", "t2"}

\* ------------------------------------------------------------------ tasks
\* The tasks Submit is called with: <<dynamic type, ID, ImageURL or Dataset>>.
\* "other" is any implementation of Task besides the two concrete types.
TaskInputs ==
    {<<"image_processing", "a", "u">>, <<"image_processing", "", "u">>,
     <<"image_processing", "a", "">>,
     <<"data_analysis", "a", "u">>, <<"data_analysis", "", "u">>,
     <<"data_analysis", "a", "">>,
     <<"other", "a", "u">>}

\* The nil interface value a receive on a closed, empty channel yields.
NilTask == [sub |-> 0, kind |-> "nil", id |-> "", req |-> ""]

\* A task value; sub is the number of the Submit call that carried it (a
\* history value the code does not hold: IDs may repeat, submissions do not).
Task(n, k, i, r) == [sub |-> n, kind |-> k, id |-> i, req |-> r]

\* Validate: nil ("nil") or the error text.  The methods have value
\* receivers, so a pointer to one of the two types runs them on its value;
\* another implementation of Task has its own Validate, which the model
\* supposes to accept.
Validate(t) ==
    CASE t.kind \in {"image_processing", "image_processing_ptr"} ->
           IF t.id = "" \/ t.req = ""
           THEN "invalid image processing task: missing required fields"
           ELSE "nil"
      [] t.kind \in {"data_analysis", "data_analysis_ptr"} ->
           IF t.id = "" \/ t.req = ""
           THEN "invalid data analysis task: missing required fields"
           ELSE "nil"
      [] OTHER -> "nil"

\* The errors routeTask can return for a task, by its dynamic type; the
\* handlers fail at random.
routeTaskUnknownSucceeds(t) ==
    CASE t.kind = "image_processing" -> {"nil", "image processing failed"}
      [] t.kind = "data_analysis" -> {"nil", "data analysis failed"}
      [] OTHER -> {"nil"}
routeTask(t) ==
    CASE t.kind = "image_processing" -> {"nil", "image processing failed"}
      [] t.kind = "data_analysis" -> {"nil", "data analysis failed"}
      [] OTHER -> {"unknown task type"}

\* ------------------------------------------------------------------ state
VARIABLES
    \* WorkerPool
    queueSize,        \* capacity of taskQueue and of resultChan
    taskQueue,        \* buffered tasks
    queueClosed,      \* close(wp.taskQueue) has run
    resultChan,       \* buffered results
    ctxDone,          \* wp.cancel() has run
    wpc,              \* position of each worker goroutine
    wtask,            \* the task a worker is processing
    werr,             \* err of routeTask in processTask
    totalProcessed,
    totalErrors,
    cpc,              \* position of the resultCollector goroutine
    shutdownOnce,     \* "fresh" | "running" | "done"
    spc,              \* position of each Shutdown caller
    sret,             \* what Shutdown returned to each caller
    timer,            \* shutdownCtx: "none" | "armed" | "expired" | "stopped"
    done,             \* the wg.Wait goroutine: "none" | "waiting" | "closed"
    shutdownCh,       \* "open" | "closed"
    crashed,          \* an unrecovered panic has ended the process
    \* history of the calls (not state of the program)
    nSubmits,         \* Submit calls made so far
    lastSubmit,       \* the Submit call of the step just taken: task, return
    accepted,         \* the submissions for which Submit returned nil
    dispatched,       \* per submission: times a worker received it
    delivered,        \* per submission: results sent on resultChan
    dropped,          \* per submission: results dropped (resultChan full)
    failed,           \* the submissions whose processing finished with an error
    wfailed,          \* the workers that have had routeTask return an error
                      \* (kept by SpecWorkers only)
    \* RateLimiter
    maxTokens,
    tokens,
    mu,               \* holder of rl.mu, or "free"
    apc,              \* position of each Acquire caller
    actx,             \* the ctx of the caller's current call is cancelled
    aret,             \* what Acquire returned to each caller
    waiters,          \* goroutines in rl.cond.Wait, in arrival order
    acalls,           \* Acquire calls each caller has made
    preCancelled,     \* the ctx was already cancelled when the call was made
    \* history of the limiter (kept by SpecLimiter only)
    ticks,            \* refill ticks since the last token was taken
    tokensBase,       \* tokens when the last token was taken (or at the start)
    cancelledWaiting, \* the ctx of the caller's current call was cancelled
                      \* while the call was in rl.cond.Wait
    \* deck
    dpc,              \* the last deck operation of the program
    cards,            \* d.cards of the deck in hand
    file,             \* the file saveToFile writes and newDeckFromFile reads
    loaded,           \* cards of the deck newDeckFromFile returned
    \* wp.resultPool (kept by SpecResults only)
    resultPool,       \* the TaskResult objects lying in the pool
    wres,             \* the object a worker got from the pool, or "none"
    robj,             \* the fields of each TaskResult object
    sent,             \* the values *result sent on resultChan, with their task
    \* routeTask called on its own (kept by SpecRoute only)
    rtask,            \* the tasks routeTask is called with
    rhandler,         \* the handler routeTask called for each, or "none"
    rerr,             \* the error routeTask returned for each
    \* Validate called on its own (kept by SpecValidate only)
    vtask,            \* the tasks Validate is called on
    verr,             \* what Validate returned for each, or "pending"
    \* a goroutine calling wp.GetStats (kept by SpecStats only)
    gpc,              \* position of the caller: "idle" | "loaded" | "returned"
    gprocessed,       \* the value loaded from totalProcessed
    gerrors,          \* the value loaded from totalErrors
    \* MemoryManager (kept by SpecMemory only)
    allocations,
    peakMemory,
    tpc,              \* position of each TrackAllocation caller
    tsize,            \* size of the caller's current call
    tcur,             \* current: the value the caller loaded from peakMemory
    tcalls,           \* TrackAllocation calls each caller has made
    largest           \* history: the largest size passed so far, or 0

workerVars == <<wpc, wtask, werr>>
statVars == <<totalProcessed, totalErrors>>
shutVars == <<shutdownOnce, spc, sret, timer, done, shutdownCh>>
histVars == <<nSubmits, accepted, dispatched, delivered, dropped, failed>>
poolVars == <<queueSize, taskQueue, queueClosed, resultChan, ctxDone, workerVars,
              statVars, cpc, shutVars, crashed, lastSubmit, histVars>>
limiterVars == <<maxTokens, tokens, mu, apc, actx, aret, waiters, acalls,
                 preCancelled>>
tickVars == <<ticks, tokensBase, cancelledWaiting>>
deckVars == <<dpc, cards, file, loaded>>
resVars == <<resultPool, wres, robj, sent>>
routeVars == <<rtask, rhandler, rerr>>
valVars == <<vtask, verr>>
getStatsVars == <<gpc, gprocessed, gerrors>>
memVars == <<allocations, peakMemory, tpc, tsize, tcur, tcalls, largest>>
vars == <<poolVars, limiterVars, wfailed, tickVars, deckVars, resVars, routeVars,
         valVars,
         getStatsVars,
         memVars>>

Subs == 1..MaxSubmits

\* The TaskResult objects resultPool.New can allocate: one for each worker
\* (a worker holds one object at a time).
Objects == {"r1", "r2"}

\* The nil map of a TaskResult whose Metadata was never set, and
\* &TaskResult{}: the object New returns.  Duration and Timestamp are clock
\* readings; the model leaves them out.
NoMetadata == [nil |-> TRUE]
ZeroResult == [TaskID |-> "", Success |-> FALSE, Error |-> "nil",
               Metadata |-> NoMetadata]

\* lastSubmit when the step just taken is not a Submit call.
NoSubmit == [task |-> NilTask, ret |-> "none"]

\* ------------------------------------------------------------- NewWorkerPool
\* The channels are empty, the workers and the collector are started and have
\* not yet reached their select.
InitPool ==
    /\ queueSize \in 0..MaxQueue
    /\ taskQueue = <<>>
    /\ queueClosed = FALSE
    /\ resultChan = <<>>
    /\ ctxDone = FALSE
    /\ wpc = [w \in Workers |-> "poll"]
    /\ wtask = [w \in Workers |-> NilTask]
    /\ werr = [w \in Workers |-> "nil"]
    /\ totalProcessed = 0
    /\ totalErrors = 0
    /\ cpc = "poll"
    /\ shutdownOnce = "fresh"
    /\ spc = [c \in ShutdownCallers |-> "idle"]
    /\ sret = [c \in ShutdownCallers |-> "none"]
    /\ timer = "none"
    /\ done = "none"
    /\ shutdownCh = "open"
    /\ crashed = FALSE
    /\ nSubmits = 0
    /\ lastSubmit = NoSubmit
    /\ accepted = {}
    /\ dispatched = [n \in Subs |-> 0]
    /\ delivered = [n \in Subs |-> 0]
    /\ dropped = [n \in Subs |-> 0]
    /\ failed = {}
    /\ wfailed = {}
    /\ resultPool = {}
    /\ wres = [w \in Workers |-> "none"]
    /\ robj = [o \in Objects |-> ZeroResult]
    /\ sent = {}

\* wg: the workers that have not run their deferred wg.Done(); a worker that
\* returned or panicked has run it.
wgCounter == Cardinality({w \in Workers : wpc[w] \notin {"exited", "panicked"}})

\* The workers blocked in the select of their loop.
ParkedWorkers == {w \in Workers : wpc[w] = "parked"}

\* ------------------------------------------------------------------ Submit
\* if err := task.Validate(); err != nil
SubmitRejectsNever(t) == FALSE
SubmitRejects(t) == Validate(t) # "nil"

\* The buffer of taskQueue has a free slot.
QueueHasRoomOffByOne == Len(taskQueue) <= queueSize
QueueHasRoom == Len(taskQueue) < queueSize

\* The cases of Submit's select that can proceed: the send (to a closed
\* channel, to a parked receiver or into the buffer) and ctx.Done().
SubmitReady ==
    (IF queueClosed \/ ParkedWorkers # {} \/ QueueHasRoom
     THEN {"send"} ELSE {})
    \cup (IF ctxDone THEN {"done"} ELSE {})

\* case wp.taskQueue <- task: return nil
SubmitSend(t) ==
    IF queueClosed
    THEN \* send on closed channel
         /\ crashed' = TRUE
         /\ lastSubmit' = [task |-> t, ret |-> "panic"]
         /\ UNCHANGED <<taskQueue, wpc, wtask, dispatched, accepted>>
    ELSE /\ lastSubmit' = [task |-> t, ret |-> "nil"]
         /\ accepted' = accepted \cup {t.sub}
         /\ UNCHANGED crashed
         /\ IF ParkedWorkers # {}
            THEN \* a receiver is parked: the value goes to it directly
                 \E w \in ParkedWorkers :
                    /\ wpc' = [wpc EXCEPT ![w] = "process"]
                    /\ wtask' = [wtask EXCEPT ![w] = t]
                    /\ dispatched' = [dispatched EXCEPT ![t.sub] = @ + 1]
                    /\ UNCHANGED taskQueue
            ELSE /\ taskQueue' = Append(taskQueue, t)
                 /\ UNCHANGED <<wpc, wtask, dispatched>>

\* The returns of Submit that leave the pool as it is.
SubmitReturn(t, r) ==
    /\ lastSubmit' = [task |-> t, ret |-> r]
    /\ UNCHANGED <<taskQueue, wpc, wtask, dispatched, accepted, crashed>>

Submit ==
    /\ ~crashed
    /\ nSubmits < MaxSubmits
    /\ nSubmits' = nSubmits + 1
    /\ \E inp \in TaskInputs :
         LET t == Task(nSubmits + 1, inp[1], inp[2], inp[3]) IN
         IF SubmitRejects(t)
         THEN SubmitReturn(t, "task validation failed")
         ELSE IF SubmitReady = {}
              THEN SubmitReturn(t, "task queue is full")
              ELSE \E c \in SubmitReady :
                      IF c = "send" THEN SubmitSend(t)
                      ELSE SubmitReturn(t, "worker pool is shutting down")
    /\ UNCHANGED <<queueSize, queueClosed, resultChan, ctxDone, werr, statVars,
                   cpc, shutVars, delivered, dropped, failed>>

\* ------------------------------------------------------------------ worker
\* The cases of the worker's select that can proceed.
WorkerReady ==
    (IF Len(taskQueue) > 0 \/ queueClosed THEN {"task"} ELSE {})
    \cup (IF ctxDone THEN {"done"} ELSE {})

\* The buffer after a receive has taken its first element.
QueueAfterReceiveKeepsHead == taskQueue
QueueAfterReceive == Tail(taskQueue)

\* case task := <-wp.taskQueue: a buffered task, or nil once the channel is
\* closed and empty.
WorkerReceive(w) ==
    IF Len(taskQueue) > 0
    THEN /\ wtask' = [wtask EXCEPT ![w] = Head(taskQueue)]
         /\ taskQueue' = QueueAfterReceive
         /\ dispatched' = [dispatched EXCEPT ![Head(taskQueue).sub] = @ + 1]
    ELSE /\ wtask' = [wtask EXCEPT ![w] = NilTask]
         /\ UNCHANGED <<taskQueue, dispatched>>

\* The worker's select has no default case: with no case ready it blocks.
AfterEmptyPollExits == "exited"
AfterEmptyPoll == "parked"

\* One evaluation of the select of the worker loop: park, receive a task and
\* call processTask, or take ctx.Done() (log, return, deferred wg.Done()).
worker(w) ==
    /\ ~crashed
    /\ wpc[w] = "poll"
    /\ IF WorkerReady = {}
       THEN /\ wpc' = [wpc EXCEPT ![w] = AfterEmptyPoll]
            /\ UNCHANGED <<taskQueue, wtask, dispatched>>
       ELSE \E c \in WorkerReady :
               IF c = "task"
               THEN /\ WorkerReceive(w)
                    /\ wpc' = [wpc EXCEPT ![w] = "process"]
               ELSE /\ wpc' = [wpc EXCEPT ![w] = "exited"]
                    /\ UNCHANGED <<taskQueue, wtask, dispatched>>
    /\ lastSubmit' = NoSubmit
    /\ UNCHANGED <<queueSize, queueClosed, resultChan, ctxDone, werr, statVars,
                   cpc, shutVars, crashed, nSubmits, accepted, delivered, dropped,
                   failed>>

\* The position of processTask after routeTask has returned err.
AfterRouteReturnOnError(e) == IF e # "nil" THEN "poll" ELSE "count"
AfterRouteSkipsCount(e) == IF e # "nil" THEN "counterr" ELSE "count"
AfterRoute(e) == "count"

\* processTask up to the call of routeTask: the result object is taken from
\* the pool and reset with task.GetID(); then the worker is inside routeTask,
\* where the handler sleeps.  On a nil task GetID panics: the goroutine
\* unwinds, running the deferred resultPool.Put of processTask and the
\* deferred wg.Done() of worker, and the process is not yet ended (until
\* wg.Done() has run no other goroutine can tell the unwinding worker from
\* one that has not yet panicked).
processTaskStart(w) ==
    /\ ~crashed
    /\ wpc[w] = "process"
    /\ wpc' = [wpc EXCEPT ![w] = IF wtask[w] = NilTask THEN "panicked" ELSE "route"]
    /\ lastSubmit' = NoSubmit
    /\ UNCHANGED <<queueSize, taskQueue, queueClosed, resultChan, ctxDone, wtask,
                   werr, statVars, cpc, shutVars, crashed, histVars>>

\* The panic of worker w was not recovered: the runtime ends the process.
panicExit(w) ==
    /\ ~crashed
    /\ wpc[w] = "panicked"
    /\ crashed' = TRUE
    /\ lastSubmit' = NoSubmit
    /\ UNCHANGED <<queueSize, taskQueue, queueClosed, resultChan, ctxDone,
                   workerVars, statVars, cpc, shutVars, histVars>>

\* err := wp.routeTask(task): the handler returns.
processTaskRoute(w) ==
    /\ ~crashed
    /\ wpc[w] = "route"
    /\ \E e \in routeTask(wtask[w]) :
          /\ wpc' = [wpc EXCEPT ![w] = AfterRoute(e)]
          /\ IF AfterRoute(e) = "poll"
             THEN /\ werr' = [werr EXCEPT ![w] = "nil"]
                  /\ wtask' = [wtask EXCEPT ![w] = NilTask]
             ELSE /\ werr' = [werr EXCEPT ![w] = e]
                  /\ UNCHANGED wtask
    /\ lastSubmit' = NoSubmit
    /\ UNCHANGED <<queueSize, taskQueue, queueClosed, resultChan, ctxDone,
                   statVars, cpc, shutVars, crashed, histVars>>

\* if err != nil: the position of processTask after totalProcessed is raised.
AfterCountSkipsErrors(e) == "send"
AfterCount(e) == IF e # "nil" THEN "counterr" ELSE "send"

\* atomic.AddInt64(&wp.totalProcessed, 1)
processTaskCount(w) ==
    /\ ~crashed
    /\ wpc[w] = "count"
    /\ totalProcessed' = totalProcessed + 1
    /\ wpc' = [wpc EXCEPT ![w] = AfterCount(werr[w])]
    /\ lastSubmit' = NoSubmit
    /\ UNCHANGED <<queueSize, taskQueue, queueClosed, resultChan, ctxDone, wtask,
                   werr, totalErrors, cpc, shutVars, crashed, histVars>>

\* if err != nil { atomic.AddInt64(&wp.totalErrors, 1) }
processTaskCountError(w) ==
    /\ ~crashed
    /\ wpc[w] = "counterr"
    /\ totalErrors' = totalErrors + 1
    /\ wpc' = [wpc EXCEPT ![w] = "send"]
    /\ lastSubmit' = NoSubmit
    /\ UNCHANGED <<queueSize, taskQueue, queueClosed, resultChan, ctxDone, wtask,
                   werr, totalProcessed, cpc, shutVars, crashed, histVars>>

\* task.ExtractMetadata(): a new map on every call.  For an
\* ImageProcessingTask one key for each json tag of the struct (no field is a
\* fmt.Stringer); for a DataAnalysisTask the four keys of the literal.  The
\* methods have value receivers, so a pointer gives the map of its value.  The
\* tasks of the model leave Filters, Query and Priority at their zero values
\* (<<>> for the nil slice and the nil map).  For another implementation of
\* Task the map is its own; the model supposes it holds the ID.
ExtractMetadata(t) ==
    CASE t.kind \in {"image_processing", "image_processing_ptr"} ->
           [id |-> t.id, image_url |-> t.req, filters |-> <<>>, priority |-> 0]
      [] t.kind \in {"data_analysis", "data_analysis_ptr"} ->
           [id |-> t.id, dataset |-> t.req, query |-> <<>>,
            type |-> "data_analysis"]
      [] OTHER -> [id |-> t.id]

\* *result = TaskResult{TaskID: task.GetID(), Timestamp: start}: every field
\* the literal does not name is set to its zero value.
ResetResultKeepsOld(old, t) == old
ResetResult(old, t) ==
    [TaskID |-> t.id, Success |-> FALSE, Error |-> "nil", Metadata |-> NoMetadata]

\* result.Success = err == nil; result.Error = err;
\* result.Metadata = task.ExtractMetadata()
FillResult(r, t, e) ==
    [r EXCEPT !.Success = (e = "nil"), !.Error = e, !.Metadata = ExtractMetadata(t)]


\* The objects resultPool.Get may return: one lying in the pool, or one New
\* allocates.
GetChoices == resultPool \cup (Objects \ (resultPool \cup {wres[w] : w \in Workers}))

\* The pool once Get has returned object o.
PoolAfterGet(o) == resultPool \ {o}

\* result := wp.resultPool.Get().(*TaskResult); defer wp.resultPool.Put(result);
\* and the reset.  With a nil task the reset panics and the deferred Put runs.
resultGet(w) ==
    \E o \in GetChoices :
        IF wtask[w] = NilTask
        THEN /\ resultPool' = PoolAfterGet(o) \cup {o}
             /\ UNCHANGED <<wres, robj, sent>>
        ELSE /\ resultPool' = PoolAfterGet(o)
             /\ wres' = [wres EXCEPT ![w] = o]
             /\ robj' = [robj EXCEPT ![o] = ResetResult(robj[o], wtask[w])]
             /\ UNCHANGED sent

\* The fields written once routeTask has returned err (Success, Error,
\* Metadata).
resultFill(w) ==
    /\ robj' = [robj EXCEPT ![wres[w]] = FillResult(@, wtask[w], werr'[w])]
    /\ UNCHANGED <<resultPool, wres, sent>>

\* The worker's object once the deferred Put has run.
AfterPutKeepsObject(w) == wres[w]
AfterPut(w) == "none"

\* The send of *result, a copy of the object's fields, when resultChan takes
\* it; then the deferred wp.resultPool.Put(result).
resultPut(w) ==
    /\ sent' = IF delivered' # delivered
               THEN sent \cup {[task |-> wtask[w], err |-> werr[w],
                                val |-> robj[wres[w]]]}
               ELSE sent
    /\ resultPool' = resultPool \cup {wres[w]}
    /\ wres' = [wres EXCEPT ![w] = AfterPut(w)]
    /\ UNCHANGED robj

\* The TaskResult value processTask sends.
TaskResult(w) ==
    [sub |-> wtask[w].sub, TaskID |-> wtask[w].id, Success |-> werr[w] = "nil",
     Error |-> werr[w]]

\* The position of the worker after processTask has returned with err.
AfterProcessTaskStopsOnError(e) == IF e # "nil" THEN "exited" ELSE "poll"
AfterProcessTask(e) == "poll"

\* The select that sends the result has a default case.
ResultSendBlocks == FALSE
ResultSendHasDefault == TRUE

\* select { case wp.resultChan <- *result: default: drop }, then the return to
\* the worker loop.  The send can proceed when the collector is parked in its
\* receive or the buffer has room.
processTaskSend(w) ==
    /\ ~crashed
    /\ wpc[w] = "send"
    /\ IF cpc = "parked"
       THEN /\ cpc' = "poll"
            /\ delivered' = [delivered EXCEPT ![wtask[w].sub] = @ + 1]
            /\ UNCHANGED <<resultChan, dropped>>
       ELSE IF Len(resultChan) < queueSize
            THEN /\ resultChan' = Append(resultChan, TaskResult(w))
                 /\ delivered' = [delivered EXCEPT ![wtask[w].sub] = @ + 1]
                 /\ UNCHANGED <<cpc, dropped>>
            ELSE /\ ResultSendHasDefault
                 /\ dropped' = [dropped EXCEPT ![wtask[w].sub] = @ + 1]
                 /\ UNCHANGED <<cpc, resultChan, delivered>>
    /\ wpc' = [wpc EXCEPT ![w] = AfterProcessTask(werr[w])]
    /\ wtask' = [wtask EXCEPT ![w] = NilTask]
    /\ werr' = [werr EXCEPT ![w] = "nil"]
    /\ failed' = IF werr[w] # "nil" THEN failed \cup {wtask[w].sub} ELSE failed
    /\ lastSubmit' = NoSubmit
    /\ UNCHANGED <<queueSize, taskQueue, queueClosed, ctxDone, statVars, shutVars,
                   crashed, nSubmits, accepted, dispatched>>

\* ---------------------------------------------------------- resultCollector
\* The cases of the collector's select that can proceed.
CollectorReady ==
    (IF Len(resultChan) > 0 THEN {"result"} ELSE {})
    \cup (IF ctxDone THEN {"done"} ELSE {})

\* One evaluation of the select of the collector loop: park, receive a result
\* (and log it when it failed), or take ctx.Done() and return.
resultCollector ==
    /\ ~crashed
    /\ cpc = "poll"
    /\ IF CollectorReady = {}
       THEN /\ cpc' = "parked"
            /\ UNCHANGED resultChan
       ELSE \E c \in CollectorReady :
               IF c = "result"
               THEN /\ resultChan' = Tail(resultChan)
                    /\ UNCHANGED cpc
               ELSE /\ cpc' = "exited"
                    /\ UNCHANGED resultChan
    /\ lastSubmit' = NoSubmit
    /\ UNCHANGED <<queueSize, taskQueue, queueClosed, ctxDone, workerVars,
                   statVars, shutVars, crashed, histVars>>

\* ----------------------------------------------------------------- Shutdown
\* wp.shutdownOnce.Do(...): the first caller runs the function, a caller that
\* arrives while it runs waits for it, a later caller returns at once; each
\* caller returns its own shutdownErr, which only the function run sets.
DoRunsAlways == TRUE
DoRuns == shutdownOnce = "fresh"

ShutdownCall(c) ==
    /\ ~crashed
    /\ spc[c] = "idle"
    /\ c = "s2" => spc["s1"] # "idle"
    /\ CASE DoRuns ->
              /\ shutdownOnce' = "running"
              /\ spc' = [spc EXCEPT ![c] = "close"]
              /\ UNCHANGED sret
         [] shutdownOnce = "running" ->
              /\ spc' = [spc EXCEPT ![c] = "blocked"]
              /\ UNCHANGED <<shutdownOnce, sret>>
         [] OTHER ->
              /\ spc' = [spc EXCEPT ![c] = "returned"]
              /\ sret' = [sret EXCEPT ![c] = "nil"]
              /\ UNCHANGED shutdownOnce
    /\ lastSubmit' = NoSubmit
    /\ UNCHANGED <<queueSize, taskQueue, queueClosed, resultChan, ctxDone,
                   workerVars, statVars, cpc, timer, done, shutdownCh, crashed,
                   histVars>>

\* A caller that waited in Do returns once the function has run.
ShutdownUnblock(c) ==
    /\ ~crashed
    /\ spc[c] = "blocked"
    /\ shutdownOnce = "done"
    /\ spc' = [spc EXCEPT ![c] = "returned"]
    /\ sret' = [sret EXCEPT ![c] = "nil"]
    /\ lastSubmit' = NoSubmit
    /\ UNCHANGED <<queueSize, taskQueue, queueClosed, resultChan, ctxDone,
                   workerVars, statVars, cpc, shutdownOnce, timer, done,
                   shutdownCh, crashed, histVars>>

\* shutdownCtx, cancel := context.WithTimeout(context.Background(), timeout)
\* starts the deadline timer, before wp.cancel() is called.
TimerAfterCloseNotStarted == timer
TimerAfterClose == "armed"

\* close(wp.taskQueue): every receiver parked on the queue is completed with
\* the zero value.  Then shutdownCtx is created with its deadline
\* (context.WithTimeout), which starts the timer.
ShutdownClose(c) ==
    /\ ~crashed
    /\ spc[c] = "close"
    /\ queueClosed' = TRUE
    /\ wpc' = [w \in Workers |-> IF wpc[w] = "parked" THEN "process" ELSE wpc[w]]
    /\ wtask' = [w \in Workers |-> IF wpc[w] = "parked" THEN NilTask ELSE wtask[w]]
    /\ timer' = TimerAfterClose
    /\ spc' = [spc EXCEPT ![c] = "cancel"]
    /\ lastSubmit' = NoSubmit
    /\ UNCHANGED <<queueSize, taskQueue, resultChan, ctxDone, werr, statVars, cpc,
                   shutdownOnce, sret, done, shutdownCh, crashed, histVars>>

\* The deadline of shutdownCtx passes (timeout is any duration).
TimerExpire ==
    /\ ~crashed
    /\ timer = "armed"
    /\ timer' = "expired"
    /\ lastSubmit' = NoSubmit
    /\ UNCHANGED <<queueSize, taskQueue, queueClosed, resultChan, ctxDone,
                   workerVars, statVars, cpc, shutdownOnce, spc, sret, done,
                   shutdownCh, crashed, histVars>>

\* wp.cancel(), then the goroutine that waits on wg is started.  A collector
\* parked in its select is completed with the ctx.Done() case (it logs and
\* returns); no worker is parked here, close(wp.taskQueue) completed them all.
ShutdownCancel(c) ==
    /\ ~crashed
    /\ spc[c] = "cancel"
    /\ ctxDone' = TRUE
    /\ cpc' = IF cpc = "parked" THEN "exited" ELSE cpc
    /\ done' = "waiting"
    /\ spc' = [spc EXCEPT ![c] = "select"]
    /\ lastSubmit' = NoSubmit
    /\ UNCHANGED <<queueSize, taskQueue, queueClosed, resultChan, workerVars,
                   statVars, shutdownOnce, sret, timer, shutdownCh, crashed,
                   histVars>>

\* wp.wg.Wait() returns: every worker has called wg.Done().
WgWaitReturnsEarly == wgCounter <= 1
WgWaitReturns == wgCounter = 0

\* go func() { wp.wg.Wait(); close(done) }()
WaitGroupWait ==
    /\ ~crashed
    /\ done = "waiting"
    /\ WgWaitReturns
    /\ done' = "closed"
    /\ lastSubmit' = NoSubmit
    /\ UNCHANGED <<queueSize, taskQueue, queueClosed, resultChan, ctxDone,
                   workerVars, statVars, cpc, shutdownOnce, spc, sret, timer,
                   shutdownCh, crashed, histVars>>

\* The cases of Shutdown's select that can proceed.
ShutdownReady ==
    (IF done = "closed" THEN {"done"} ELSE {})
    \cup (IF timer = "expired" THEN {"timeout"} ELSE {})

\* select { case <-done: case <-shutdownCtx.Done(): }, close(wp.shutdownCh),
\* the deferred cancel of shutdownCtx, and the return of shutdownErr.
ShutdownSelect(c) ==
    /\ ~crashed
    /\ spc[c] = "select"
    /\ \E r \in ShutdownReady :
          sret' = [sret EXCEPT ![c] = IF r = "done" THEN "nil"
                                      ELSE "shutdown timeout exceeded"]
    /\ shutdownCh' = "closed"
    /\ timer' = "stopped"
    /\ shutdownOnce' = "done"
    /\ spc' = [spc EXCEPT ![c] = "returned"]
    /\ lastSubmit' = NoSubmit
    /\ UNCHANGED <<queueSize, taskQueue, queueClosed, resultChan, ctxDone,
                   workerVars, statVars, cpc, done, crashed, histVars>>

\* sync.Once.Do locks the mutex of the Once around the function it runs: the
\* caller that runs the function holds it from the call until the function has
\* returned, and the callers that arrive meanwhile block on it.
OnceLockHolders == {c \in ShutdownCallers : spc[c] \in {"close", "cancel", "select"}}
OnceLockWaiters == {c \in ShutdownCallers : spc[c] = "blocked"}

\* The caller is suspended in the select of Shutdown: neither done is closed
\* nor has the deadline passed.
ShutdownWaits(c) == spc[c] = "select" /\ ShutdownReady = {}

\* --------------------------------------------------------------- RateLimiter
\* NewRateLimiter(maxTokens, refillRate): the bucket starts full.  lastRefill
\* is written by the refill loop and read nowhere; the model leaves it out.
InitLimiter ==
    /\ maxTokens \in 1..MaxTokensBound
    /\ tokens = maxTokens
    /\ mu = "free"
    /\ apc = [a \in Callers |-> "idle"]
    /\ actx = [a \in Callers |-> FALSE]
    /\ aret = [a \in Callers |-> "none"]
    /\ waiters = <<>>
    /\ acalls = [a \in Callers |-> 0]
    /\ preCancelled = [a \in Callers |-> FALSE]
    /\ ticks = 0
    /\ tokensBase = maxTokens
    /\ cancelledWaiting = [a \in Callers |-> FALSE]

\* if rl.tokens < rl.maxTokens
RefillGuardAlways == TRUE
RefillGuard == tokens < maxTokens

\* rl.cond.Signal(): the goroutine that has waited longest leaves Wait and
\* will take rl.mu again.
SignalLost == UNCHANGED <<apc, waiters>>
SignalBroadcast ==
    /\ apc' = [a \in Callers |-> IF apc[a] = "waiting" THEN "lock" ELSE apc[a]]
    /\ waiters' = <<>>
Signal ==
    IF waiters # <<>>
    THEN /\ apc' = [apc EXCEPT ![Head(waiters)] = "lock"]
         /\ waiters' = Tail(waiters)
    ELSE UNCHANGED <<apc, waiters>>

\* rl.tokens++
TokensAfterRefillToMax == maxTokens
TokensAfterRefill == tokens + 1

\* One tick of refillTokens: Lock, the guarded increment and Signal, Unlock.
refillTokens ==
    /\ mu = "free"
    /\ IF RefillGuard
       THEN /\ tokens' = TokensAfterRefill
            /\ Signal
       ELSE UNCHANGED <<tokens, apc, waiters>>
    /\ UNCHANGED <<maxTokens, mu, actx, aret, acalls, preCancelled>>

\* A caller calls Acquire(ctx) with a ctx that is live or already cancelled.
AcquireCall(a) ==
    /\ apc[a] = "idle"
    /\ acalls[a] < MaxCalls
    /\ acalls' = [acalls EXCEPT ![a] = @ + 1]
    /\ \E c \in BOOLEAN :
          /\ actx' = [actx EXCEPT ![a] = c]
          /\ preCancelled' = [preCancelled EXCEPT ![a] = c]
    /\ aret' = [aret EXCEPT ![a] = "none"]
    /\ apc' = [apc EXCEPT ![a] = "lock"]
    /\ UNCHANGED <<maxTokens, tokens, mu, waiters>>

\* The caller's ctx is cancelled while its call is in progress.
CancelCtx(a) ==
    /\ apc[a] # "idle"
    /\ ~actx[a]
    /\ actx' = [actx EXCEPT ![a] = TRUE]
    /\ UNCHANGED <<maxTokens, tokens, mu, apc, aret, waiters, acalls,
                   preCancelled>>

\* rl.mu.Lock(), at entry and when cond.Wait returns.
AcquireLock(a) ==
    /\ apc[a] = "lock"
    /\ mu = "free"
    /\ mu' = a
    /\ apc' = [apc EXCEPT ![a] = "check"]
    /\ UNCHANGED <<maxTokens, tokens, actx, aret, waiters, acalls, preCancelled>>

\* for rl.tokens <= 0
AcquireLoopCond == tokens <= 0

\* rl.cond.Wait() unlocks rl.mu while the caller is suspended.
MuWhileWaitingHeld(a) == a
MuWhileWaiting(a) == "free"

\* One evaluation of the loop of Acquire, rl.mu held: leave the loop, return
\* ctx.Err() (the deferred Unlock runs), or cond.Wait (which unlocks).
AcquireCheck(a) ==
    /\ apc[a] = "check"
    /\ mu = a
    /\ IF AcquireLoopCond
       THEN IF actx[a]
            THEN /\ aret' = [aret EXCEPT ![a] = "context canceled"]
                 /\ apc' = [apc EXCEPT ![a] = "idle"]
                 /\ mu' = "free"
                 /\ UNCHANGED waiters
            ELSE /\ waiters' = Append(waiters, a)
                 /\ apc' = [apc EXCEPT ![a] = "waiting"]
                 /\ mu' = MuWhileWaiting(a)
                 /\ UNCHANGED aret
       ELSE /\ apc' = [apc EXCEPT ![a] = "take"]
            /\ UNCHANGED <<mu, aret, waiters>>
    /\ UNCHANGED <<maxTokens, tokens, actx, acalls, preCancelled>>

\* rl.tokens--; return nil (the deferred Unlock runs).
AcquireTake(a) ==
    /\ apc[a] = "take"
    /\ mu = a
    /\ tokens' = tokens - 1
    /\ aret' = [aret EXCEPT ![a] = "nil"]
    /\ apc' = [apc EXCEPT ![a] = "idle"]
    /\ mu' = "free"
    /\ UNCHANGED <<maxTokens, actx, waiters, acalls, preCancelled>>

\* --------------------------------------------------------------------- deck
\* A string is the sequence of its symbols; "," is the symbol strings.Join
\* puts between cards and strings.Split cuts at.  A literal without a comma is
\* one symbol.
cardSuits == << <<"Spades">>, <<"Diamonds">>, <<"Hearts">>, <<"Clubs">> >>
cardValues == << <<"Ace">>, <<"Two">>, <<"Three">>, <<"Four">> >>

\* value + " of " + suit
CardName(value, suit) == value \o <<" of ">> \o suit

RECURSIVE AppendValues(_, _, _)
\* The inner loop of newDeck from cardValues[j] on.
AppendValues(d, suit, j) ==
    IF j > Len(cardValues) THEN d
    ELSE AppendValues(Append(d, CardName(cardValues[j], suit)), suit, j + 1)

RECURSIVE AppendSuits(_, _)
\* The outer loop of newDeck from cardSuits[i] on.
AppendSuits(d, i) ==
    IF i > Len(cardSuits) THEN d
    ELSE AppendSuits(AppendValues(d, cardSuits[i], 1), i + 1)

RECURSIVE AppendSuitsOfValue(_, _, _)
AppendSuitsOfValue(d, value, i) ==
    IF i > Len(cardSuits) THEN d
    ELSE AppendSuitsOfValue(Append(d, CardName(value, cardSuits[i])), value, i + 1)

RECURSIVE AppendByValue(_, _)
AppendByValue(d, j) ==
    IF j > Len(cardValues) THEN d
    ELSE AppendByValue(AppendSuitsOfValue(d, cardValues[j], 1), j + 1)

\* newDeck(): the cards of the deck it returns.
newDeckValueMajor == AppendByValue(<<>>, 1)
newDeck == AppendSuits(<<>>, 1)

RECURSIVE Join(_)
\* strings.Join(cs, ",")
Join(cs) ==
    IF Len(cs) = 0 THEN <<>>
    ELSE IF Len(cs) = 1 THEN cs[1]
    ELSE cs[1] \o <<",">> \o Join(Tail(cs))

\* d.toString()
toString(cs) == Join(cs)

RECURSIVE Split(_)
\* strings.Split(str, ","): the pieces between the commas, one more than
\* there are commas (a string without a comma, the empty one too, is one piece).
Split(str) ==
    IF \A i \in 1..Len(str) : str[i] # ","
    THEN <<str>>
    ELSE LET i == CHOOSE k \in 1..Len(str) :
                     str[k] = "," /\ \A m \in 1..(k - 1) : str[m] # ","
         IN  <<SubSeq(str, 1, i - 1)>> \o Split(SubSeq(str, i + 1, Len(str)))

\* The symbols of the card names of the decks built by hand.
Alphabet == {"x", ","}
\* The card names and the decks built by hand (deck{cards: ...}).
InputNames == UNION {[1..n -> Alphabet] : n \in 0..MaxNameLen}
InputDecks == UNION {[1..n -> InputNames] : n \in 0..MaxDeckLen}

NoFile == [exists |-> FALSE, data |-> <<>>]

InitDeck ==
    /\ dpc = "start"
    /\ cards = <<>>
    /\ file = NoFile
    /\ loaded = <<>>

\* d := newDeck()
DeckNew ==
    /\ dpc = "start"
    /\ cards' = newDeck
    /\ dpc' = "newDeck"
    /\ UNCHANGED <<file, loaded>>

\* d := deck{cards: ...}
DeckLiteral ==
    /\ dpc = "start"
    /\ \E d \in InputDecks : cards' = d
    /\ dpc' = "literal"
    /\ UNCHANGED <<file, loaded>>

\* hand, rest := deal(d, handSize), handSize within the deck; the program
\* goes on with either of the two.
DeckDeal ==
    /\ dpc \in {"newDeck", "literal", "deal"}
    /\ \E handSize \in 0..Len(cards) :
          \/ cards' = SubSeq(cards, 1, handSize)
          \/ cards' = SubSeq(cards, handSize + 1, Len(cards))
    /\ dpc' = "deal"
    /\ UNCHANGED <<file, loaded>>

\* d.saveToFile(filename): os.WriteFile creates or truncates the file and
\* writes the text; it can fail before the file exists, or after any part of
\* the text is written, and saveToFile drops the error it returns.
saveToFile ==
    /\ dpc \in {"newDeck", "literal", "deal"}
    /\ \/ \E n \in 0..Len(toString(cards)) :
             file' = [exists |-> TRUE, data |-> SubSeq(toString(cards), 1, n)]
       \/ file' = NoFile
    /\ dpc' = "saveToFile"
    /\ UNCHANGED <<cards, loaded>>

\* newDeckFromFile(filename): when os.ReadFile fails (the file was never
\* saved) the error is printed and os.Exit(1) ends the program; otherwise the
\* deck is the pieces of the file's text.
newDeckFromFile ==
    /\ dpc \in {"start", "newDeck", "literal", "deal", "saveToFile"}
    /\ IF file.exists
       THEN /\ loaded' = Split(file.data)
            /\ dpc' = "newDeckFromFile"
       ELSE /\ dpc' = "exit"
            /\ UNCHANGED loaded
    /\ UNCHANGED <<cards, file>>

\* d.cards[i], d.cards[j] = d.cards[j], d.cards[i]
Swap(cs, i, j) == [cs EXCEPT ![i] = cs[j], ![j] = cs[i]]

RECURSIVE ShuffleFrom(_, _)
\* The decks the loop of shuffle can leave from position i on: at every
\* position newPosition is r.Intn(len(d.cards) - 1), any of 0..len-2, which
\* are the positions 1..len-1 here.
ShuffleFrom(cs, i) ==
    IF i > Len(cs) THEN {cs}
    ELSE UNION {ShuffleFrom(Swap(cs, i, newPosition), i + 1) :
                    newPosition \in 1..(Len(cs) - 1)}

\* d.shuffle(): r.Intn(0) panics for a deck of one card; for an empty deck
\* the loop does not run.
shuffle ==
    /\ dpc \in {"newDeck", "literal", "deal"}
    /\ Len(cards) <= MaxShuffleLen
    /\ IF Len(cards) = 1
       THEN /\ dpc' = "panic"
            /\ UNCHANGED cards
       ELSE /\ dpc' = "shuffle"
            /\ cards' \in ShuffleFrom(cards, 1)
    /\ UNCHANGED <<file, loaded>>

\* ---------------------------------------------------------------- routeTask
\* The dynamic types of the tasks routeTask is called with: the two concrete
\* types, pointers to them (which implement Task through the value methods)
\* and any other implementation.
RouteTypes == {"image_processing", "data_analysis", "image_processing_ptr",
               "data_analysis_ptr", "other"}
RouteInputs == {Task(0, k, "a", "u") : k \in RouteTypes}
Calls == 1..2

\* task.GetType(): the kind tag; a pointer reports the tag of its value.
GetType(t) ==
    CASE t.kind \in {"image_processing", "image_processing_ptr"} -> "image_processing"
      [] t.kind \in {"data_analysis", "data_analysis_ptr"} -> "data_analysis"
      [] OTHER -> "custom"

\* The handler the switch of routeTask calls: it compares reflect.TypeOf(task)
\* with the two value types.
Handler(t) ==
    CASE t.kind = "image_processing" -> "processImageTask"
      [] t.kind = "data_analysis" -> "processDataTask"
      [] OTHER -> "none"

InitRoute ==
    /\ rtask \in [Calls -> RouteInputs]
    /\ rhandler = [i \in Calls |-> "pending"]
    /\ rerr = [i \in Calls |-> "nil"]

\* rtask when routeTask is not called on its own.
NoRoute == [i \in Calls |-> Task(0, "image_processing", "a", "u")]

\* err := wp.routeTask(rtask[i])
RouteCall(i) ==
    /\ rhandler[i] = "pending"
    /\ rhandler' = [rhandler EXCEPT ![i] = Handler(rtask[i])]
    /\ \E e \in routeTask(rtask[i]) : rerr' = [rerr EXCEPT ![i] = e]
    /\ UNCHANGED rtask

\* ------------------------------------------------------------ MemoryManager
\* The sizes TrackAllocation is called with.
Sizes == (0 - 1)..MaxSize

\* A MemoryManager as main makes it (&MemoryManager{}): all counters 0.
InitMemory ==
    /\ allocations = 0
    /\ peakMemory = 0
    /\ tpc = [t \in Trackers |-> "idle"]
    /\ tsize = [t \in Trackers |-> 0]
    /\ tcur = [t \in Trackers |-> 0]
    /\ tcalls = [t \in Trackers |-> 0]
    /\ largest = 0

\* mm.TrackAllocation(size): atomic.AddInt64(&mm.allocations, 1).
TrackAllocation(t) ==
    /\ tpc[t] = "idle"
    /\ tcalls[t] < MaxTrackCalls
    /\ tcalls' = [tcalls EXCEPT ![t] = @ + 1]
    /\ \E size \in Sizes :
          /\ tsize' = [tsize EXCEPT ![t] = size]
          /\ largest' = IF size > largest THEN size ELSE largest
    /\ allocations' = allocations + 1
    /\ tpc' = [tpc EXCEPT ![t] = "load"]
    /\ UNCHANGED <<peakMemory, tcur>>

\* current := atomic.LoadInt64(&mm.peakMemory); if size <= current { break }
TrackLoad(t) ==
    /\ tpc[t] = "load"
    /\ tcur' = [tcur EXCEPT ![t] = peakMemory]
    /\ tpc' = [tpc EXCEPT ![t] = IF tsize[t] <= peakMemory THEN "idle" ELSE "cas"]
    /\ UNCHANGED <<allocations, peakMemory, tsize, tcalls, largest>>

\* atomic.CompareAndSwapInt64 swaps only if peakMemory still holds current.
CasSucceedsAlways(t) == TRUE
CasSucceeds(t) == peakMemory = tcur[t]

\* if atomic.CompareAndSwapInt64(&mm.peakMemory, current, size) { break }, or
\* the next round of the loop.
TrackCas(t) ==
    /\ tpc[t] = "cas"
    /\ IF CasSucceeds(t)
       THEN /\ peakMemory' = tsize[t]
            /\ tpc' = [tpc EXCEPT ![t] = "idle"]
       ELSE /\ tpc' = [tpc EXCEPT ![t] = "load"]
            /\ UNCHANGED peakMemory
    /\ UNCHANGED <<allocations, tsize, tcur, tcalls, largest>>

\* ----------------------------------------------------------------- GetStats
InitGetStats ==
    /\ gpc = "idle"
    /\ gprocessed = 0
    /\ gerrors = 0

\* return atomic.LoadInt64(&wp.totalProcessed), ...: the operands of the return
\* are evaluated from left to right, each load on its own.
GetStatsLoadProcessed ==
    /\ gpc \in {"idle", "returned"}
    /\ gprocessed' = totalProcessed
    /\ gpc' = "loaded"
    /\ UNCHANGED gerrors

\* ..., atomic.LoadInt64(&wp.totalErrors), and the return of the pair.
GetStatsLoadErrors ==
    /\ gpc = "loaded"
    /\ gerrors' = totalErrors
    /\ gpc' = "returned"
    /\ UNCHANGED gprocessed

\* ----------------------------------------------------------------- Validate
\* The tasks Validate is called on: each dynamic type with ID and ImageURL or
\* Dataset empty or not.
ValidateInputs ==
    {Task(0, k, i, r) : k \in RouteTypes, i \in {"", "a"}, r \in {"", "u"}}

InitValidate ==
    /\ vtask \in [Calls -> ValidateInputs]
    /\ verr = [i \in Calls |-> "pending"]

\* vtask when Validate is not called on its own.
NoValidate == [i \in Calls |-> Task(0, "image_processing", "a", "u")]

\* err := vtask[i].Validate()
ValidateCall(i) ==
    /\ verr[i] = "pending"
    /\ verr' = [verr EXCEPT ![i] = Validate(vtask[i])]
    /\ UNCHANGED vtask

\* --------------------------------------------------------------------- spec
\* The pool, beside a limiter nobody uses.
Init == InitPool /\ InitLimiter /\ maxTokens = 1 /\ InitDeck /\ InitRoute /\ rtask = NoRoute
         /\ InitValidate /\ vtask = NoValidate /\ InitGetStats /\ InitMemory

Next ==
    \/ Submit /\ UNCHANGED <<limiterVars, wfailed, tickVars, deckVars, resVars, routeVars, valVars, getStatsVars, memVars>>
    \/ (\E w \in Workers : worker(w)) /\ UNCHANGED <<limiterVars, wfailed, tickVars, deckVars, resVars, routeVars, valVars, getStatsVars, memVars>>
    \/ (\E w \in Workers : processTaskStart(w)) /\ UNCHANGED <<limiterVars, wfailed, tickVars, deckVars, resVars, routeVars, valVars, getStatsVars, memVars>>
    \/ (\E w \in Workers : panicExit(w)) /\ UNCHANGED <<limiterVars, wfailed, tickVars, deckVars, resVars, routeVars, valVars, getStatsVars, memVars>>
    \/ (\E w \in Workers : processTaskRoute(w)) /\ UNCHANGED <<limiterVars, wfailed, tickVars, deckVars, resVars, routeVars, valVars, getStatsVars, memVars>>
    \/ (\E w \in Workers : processTaskCount(w)) /\ UNCHANGED <<limiterVars, wfailed, tickVars, deckVars, resVars, routeVars, valVars, getStatsVars, memVars>>
    \/ (\E w \in Workers : processTaskCountError(w)) /\ UNCHANGED <<limiterVars, wfailed, tickVars, deckVars, resVars, routeVars, valVars, getStatsVars, memVars>>
    \/ (\E w \in Workers : processTaskSend(w)) /\ UNCHANGED <<limiterVars, wfailed, tickVars, deckVars, resVars, routeVars, valVars, getStatsVars, memVars>>
    \/ resultCollector /\ UNCHANGED <<limiterVars, wfailed, tickVars, deckVars, resVars, routeVars, valVars, getStatsVars, memVars>>
    \/ (\E c \in ShutdownCallers : ShutdownCall(c)) /\ UNCHANGED <<limiterVars, wfailed, tickVars, deckVars, resVars, routeVars, valVars, getStatsVars, memVars>>
    \/ (\E c \in ShutdownCallers : ShutdownUnblock(c)) /\ UNCHANGED <<limiterVars, wfailed, tickVars, deckVars, resVars, routeVars, valVars, getStatsVars, memVars>>
    \/ (\E c \in ShutdownCallers : ShutdownClose(c)) /\ UNCHANGED <<limiterVars, wfailed, tickVars, deckVars, resVars, routeVars, valVars, getStatsVars, memVars>>
    \/ (\E c \in ShutdownCallers : ShutdownCancel(c)) /\ UNCHANGED <<limiterVars, wfailed, tickVars, deckVars, resVars, routeVars, valVars, getStatsVars, memVars>>
    \/ (\E c \in ShutdownCallers : ShutdownSelect(c)) /\ UNCHANGED <<limiterVars, wfailed, tickVars, deckVars, resVars, routeVars, valVars, getStatsVars, memVars>>
    \/ TimerExpire /\ UNCHANGED <<limiterVars, wfailed, tickVars, deckVars, resVars, routeVars, valVars, getStatsVars, memVars>>
    \/ WaitGroupWait /\ UNCHANGED <<limiterVars, wfailed, tickVars, deckVars, resVars, routeVars, valVars, getStatsVars, memVars>>

Spec == Init /\ [][Next]_vars

\* One step of worker goroutine w.
workerNext(w) ==
    \/ worker(w)
    \/ processTaskStart(w)
    \/ panicExit(w)
    \/ processTaskRoute(w)
    \/ processTaskCount(w)
    \/ processTaskCountError(w)
    \/ processTaskSend(w)

\* The pool with the scheduling the Go runtime gives its goroutines: a worker
\* that can take a step is not left waiting forever.
SpecFair ==
    /\ Init
    /\ [][Next]_vars
    /\ \A w \in Workers : WF_vars(workerNext(w) /\ UNCHANGED <<limiterVars, wfailed, tickVars, deckVars, resVars, routeVars, valVars, getStatsVars, memVars>>)

\* processTask of worker w notes in wfailed that routeTask returned an error.
RecordFailure ==
    wfailed' = wfailed \cup {w \in Workers : wpc[w] = "route" /\ werr'[w] # "nil"}

\* The pool with the history of which workers have had a handler fail.
NextW ==
    \/ Submit /\ UNCHANGED <<limiterVars, wfailed, tickVars, deckVars, resVars, routeVars, valVars, getStatsVars, memVars>>
    \/ (\E w \in Workers : worker(w)) /\ UNCHANGED <<limiterVars, wfailed, tickVars, deckVars, resVars, routeVars, valVars, getStatsVars, memVars>>
    \/ (\E w \in Workers : processTaskStart(w)) /\ UNCHANGED <<limiterVars, wfailed, tickVars, deckVars, resVars, routeVars, valVars, getStatsVars, memVars>>
    \/ (\E w \in Workers : panicExit(w)) /\ UNCHANGED <<limiterVars, wfailed, tickVars, deckVars, resVars, routeVars, valVars, getStatsVars, memVars>>
    \/ (\E w \in Workers : processTaskRoute(w)) /\ RecordFailure /\ UNCHANGED <<limiterVars, tickVars, deckVars, resVars, routeVars, valVars, getStatsVars, memVars>>
    \/ (\E w \in Workers : processTaskCount(w)) /\ UNCHANGED <<limiterVars, wfailed, tickVars, deckVars, resVars, routeVars, valVars, getStatsVars, memVars>>
    \/ (\E w \in Workers : processTaskCountError(w)) /\ UNCHANGED <<limiterVars, wfailed, tickVars, deckVars, resVars, routeVars, valVars, getStatsVars, memVars>>
    \/ (\E w \in Workers : processTaskSend(w)) /\ UNCHANGED <<limiterVars, wfailed, tickVars, deckVars, resVars, routeVars, valVars, getStatsVars, memVars>>
    \/ resultCollector /\ UNCHANGED <<limiterVars, wfailed, tickVars, deckVars, resVars, routeVars, valVars, getStatsVars, memVars>>
    \/ (\E c \in ShutdownCallers : ShutdownCall(c)) /\ UNCHANGED <<limiterVars, wfailed, tickVars, deckVars, resVars, routeVars, valVars, getStatsVars, memVars>>
    \/ (\E c \in ShutdownCallers : ShutdownUnblock(c)) /\ UNCHANGED <<limiterVars, wfailed, tickVars, deckVars, resVars, routeVars, valVars, getStatsVars, memVars>>
    \/ (\E c \in ShutdownCallers : ShutdownClose(c)) /\ UNCHANGED <<limiterVars, wfailed, tickVars, deckVars, resVars, routeVars, valVars, getStatsVars, memVars>>
    \/ (\E c \in ShutdownCallers : ShutdownCancel(c)) /\ UNCHANGED <<limiterVars, wfailed, tickVars, deckVars, resVars, routeVars, valVars, getStatsVars, memVars>>
    \/ (\E c \in ShutdownCallers : ShutdownSelect(c)) /\ UNCHANGED <<limiterVars, wfailed, tickVars, deckVars, resVars, routeVars, valVars, getStatsVars, memVars>>
    \/ TimerExpire /\ UNCHANGED <<limiterVars, wfailed, tickVars, deckVars, resVars, routeVars, valVars, getStatsVars, memVars>>
    \/ WaitGroupWait /\ UNCHANGED <<limiterVars, wfailed, tickVars, deckVars, resVars, routeVars, valVars, getStatsVars, memVars>>

SpecWorkers == Init /\ [][NextW]_vars

\* The pool with its resultPool, while nobody calls Shutdown.
NextR ==
    \/ Submit /\ UNCHANGED <<limiterVars, wfailed, tickVars, deckVars, resVars, routeVars, valVars, getStatsVars, memVars>>
    \/ (\E w \in Workers : worker(w)) /\ UNCHANGED <<limiterVars, wfailed, tickVars, deckVars, resVars, routeVars, valVars, getStatsVars, memVars>>
    \/ (\E w \in Workers : processTaskStart(w) /\ resultGet(w)) /\ UNCHANGED <<limiterVars, wfailed, tickVars, deckVars, routeVars, valVars, getStatsVars, memVars>>
    \/ (\E w \in Workers : processTaskRoute(w) /\ resultFill(w)) /\ UNCHANGED <<limiterVars, wfailed, tickVars, deckVars, routeVars, valVars, getStatsVars, memVars>>
    \/ (\E w \in Workers : processTaskCount(w)) /\ UNCHANGED <<limiterVars, wfailed, tickVars, deckVars, resVars, routeVars, valVars, getStatsVars, memVars>>
    \/ (\E w \in Workers : processTaskCountError(w)) /\ UNCHANGED <<limiterVars, wfailed, tickVars, deckVars, resVars, routeVars, valVars, getStatsVars, memVars>>
    \/ (\E w \in Workers : processTaskSend(w) /\ resultPut(w)) /\ UNCHANGED <<limiterVars, wfailed, tickVars, deckVars, routeVars, valVars, getStatsVars, memVars>>
    \/ resultCollector /\ UNCHANGED <<limiterVars, wfailed, tickVars, deckVars, resVars, routeVars, valVars, getStatsVars, memVars>>

SpecResults == Init /\ [][NextR]_vars

\* The pool beside a goroutine that calls GetStats, while nobody calls
\* Shutdown.
NextG ==
    \/ Submit /\ UNCHANGED <<limiterVars, wfailed, tickVars, deckVars, resVars, routeVars, valVars, getStatsVars, memVars>>
    \/ (\E w \in Workers : worker(w)) /\ UNCHANGED <<limiterVars, wfailed, tickVars, deckVars, resVars, routeVars, valVars, getStatsVars, memVars>>
    \/ (\E w \in Workers : processTaskStart(w)) /\ UNCHANGED <<limiterVars, wfailed, tickVars, deckVars, resVars, routeVars, valVars, getStatsVars, memVars>>
    \/ (\E w \in Workers : processTaskRoute(w)) /\ UNCHANGED <<limiterVars, wfailed, tickVars, deckVars, resVars, routeVars, valVars, getStatsVars, memVars>>
    \/ (\E w \in Workers : processTaskCount(w)) /\ UNCHANGED <<limiterVars, wfailed, tickVars, deckVars, resVars, routeVars, valVars, getStatsVars, memVars>>
    \/ (\E w \in Workers : processTaskCountError(w)) /\ UNCHANGED <<limiterVars, wfailed, tickVars, deckVars, resVars, routeVars, valVars, getStatsVars, memVars>>
    \/ (\E w \in Workers : processTaskSend(w)) /\ UNCHANGED <<limiterVars, wfailed, tickVars, deckVars, resVars, routeVars, valVars, getStatsVars, memVars>>
    \/ resultCollector /\ UNCHANGED <<limiterVars, wfailed, tickVars, deckVars, resVars, routeVars, valVars, getStatsVars, memVars>>
    \/ GetStatsLoadProcessed /\ UNCHANGED poolVars /\ UNCHANGED <<limiterVars, wfailed, tickVars, deckVars, resVars, routeVars, valVars, memVars>>
    \/ GetStatsLoadErrors /\ UNCHANGED poolVars /\ UNCHANGED <<limiterVars, wfailed, tickVars, deckVars, resVars, routeVars, valVars, memVars>>

SpecStats == Init /\ [][NextG]_vars

\* The limiter, beside a pool nobody uses.
InitL == InitLimiter /\ InitPool /\ queueSize = 0 /\ InitDeck /\ InitRoute /\ rtask = NoRoute
         /\ InitValidate /\ vtask = NoValidate /\ InitGetStats /\ InitMemory

\* The history of a refill tick; ticks beyond MaxTicks are left out.
TickNoted ==
    /\ ticks < MaxTicks
    /\ ticks' = ticks + 1
    /\ UNCHANGED <<tokensBase, cancelledWaiting>>

\* The history of a token taken.
TakeNoted ==
    /\ ticks' = 0
    /\ tokensBase' = tokens'
    /\ UNCHANGED cancelledWaiting

\* The history of a call and of a cancellation: whether the ctx of the current
\* call was cancelled while the call was in rl.cond.Wait.
CallNoted(a) ==
    /\ cancelledWaiting' = [cancelledWaiting EXCEPT ![a] = FALSE]
    /\ UNCHANGED <<ticks, tokensBase>>

CancelNoted(a) ==
    /\ cancelledWaiting' = [cancelledWaiting EXCEPT ![a] = apc[a] = "waiting"]
    /\ UNCHANGED <<ticks, tokensBase>>

NextL ==
    \/ refillTokens /\ TickNoted /\ UNCHANGED <<poolVars, wfailed, deckVars, resVars, routeVars, valVars, getStatsVars, memVars>>
    \/ (\E a \in Callers : AcquireCall(a) /\ CallNoted(a)) /\ UNCHANGED <<poolVars, wfailed, deckVars, resVars, routeVars, valVars, getStatsVars, memVars>>
    \/ (\E a \in Callers : CancelCtx(a) /\ CancelNoted(a)) /\ UNCHANGED <<poolVars, wfailed, deckVars, resVars, routeVars, valVars, getStatsVars, memVars>>
    \/ (\E a \in Callers : AcquireLock(a)) /\ UNCHANGED <<poolVars, wfailed, tickVars, deckVars, resVars, routeVars, valVars, getStatsVars, memVars>>
    \/ (\E a \in Callers : AcquireCheck(a)) /\ UNCHANGED <<poolVars, wfailed, tickVars, deckVars, resVars, routeVars, valVars, getStatsVars, memVars>>
    \/ (\E a \in Callers : AcquireTake(a)) /\ TakeNoted /\ UNCHANGED <<poolVars, wfailed, deckVars, resVars, routeVars, valVars, getStatsVars, memVars>>

SpecLimiter == InitL /\ [][NextL]_vars

\* One step of the call of caller a once it is made.
acquireNext(a) ==
    \/ AcquireCheck(a) /\ UNCHANGED tickVars
    \/ AcquireTake(a) /\ TakeNoted

\* The limiter with the scheduling the program runs under: the ticker fires
\* forever and rl.mu is handed to every goroutine that keeps asking for it (a
\* sync mutex does not starve a waiter), and a goroutine that holds rl.mu runs
\* on.  Nothing obliges a caller to call Acquire or a ctx to be cancelled.
SpecLimiterFair ==
    /\ InitL
    /\ [][NextL]_vars
    /\ SF_vars(refillTokens /\ TickNoted /\ UNCHANGED <<poolVars, wfailed, deckVars, resVars, routeVars, valVars, getStatsVars, memVars>>)
    /\ \A a \in Callers :
          /\ SF_vars(AcquireLock(a) /\ UNCHANGED <<poolVars, wfailed, tickVars, deckVars, resVars, routeVars, valVars, getStatsVars, memVars>>)
          /\ WF_vars(acquireNext(a) /\ UNCHANGED <<poolVars, wfailed, deckVars, resVars, routeVars, valVars, getStatsVars, memVars>>)

\* The deck program, beside a pool and a limiter nobody uses.
InitD == InitDeck /\ InitPool /\ queueSize = 0 /\ InitLimiter /\ maxTokens = 1
         /\ InitRoute /\ rtask = NoRoute
         /\ InitValidate /\ vtask = NoValidate /\ InitGetStats /\ InitMemory

NextD ==
    \/ DeckNew /\ UNCHANGED <<poolVars, limiterVars, wfailed, tickVars, resVars, routeVars, valVars, getStatsVars, memVars>>
    \/ DeckLiteral /\ UNCHANGED <<poolVars, limiterVars, wfailed, tickVars, resVars, routeVars, valVars, getStatsVars, memVars>>
    \/ DeckDeal /\ UNCHANGED <<poolVars, limiterVars, wfailed, tickVars, resVars, routeVars, valVars, getStatsVars, memVars>>
    \/ saveToFile /\ UNCHANGED <<poolVars, limiterVars, wfailed, tickVars, resVars, routeVars, valVars, getStatsVars, memVars>>
    \/ newDeckFromFile /\ UNCHANGED <<poolVars, limiterVars, wfailed, tickVars, resVars, routeVars, valVars, getStatsVars, memVars>>
    \/ shuffle /\ UNCHANGED <<poolVars, limiterVars, wfailed, tickVars, resVars, routeVars, valVars, getStatsVars, memVars>>

SpecDeck == InitD /\ [][NextD]_vars

\* routeTask called on two tasks, beside a pool, a limiter and a deck nobody
\* uses.
InitT == InitRoute /\ InitPool /\ queueSize = 0 /\ InitLimiter /\ maxTokens = 1
         /\ InitDeck
         /\ InitValidate /\ vtask = NoValidate /\ InitGetStats /\ InitMemory

NextT ==
    (\E i \in Calls : RouteCall(i))
       /\ UNCHANGED <<poolVars, limiterVars, wfailed, tickVars, deckVars, resVars, valVars, getStatsVars, memVars>>

SpecRoute == InitT /\ [][NextT]_vars

\* Validate called on two tasks, beside the rest, which nobody uses.
InitV == InitValidate /\ InitPool /\ queueSize = 0 /\ InitLimiter /\ maxTokens = 1
         /\ InitDeck /\ InitRoute /\ rtask = NoRoute /\ InitGetStats /\ InitMemory

NextV ==
    (\E i \in Calls : ValidateCall(i))
       /\ UNCHANGED <<poolVars, limiterVars, wfailed, tickVars, deckVars, resVars, routeVars, getStatsVars, memVars>>

SpecValidate == InitV /\ [][NextV]_vars

\* Goroutines calling TrackAllocation on one MemoryManager, beside the rest,
\* which nobody uses.
InitM == Init /\ queueSize = 0

NextM ==
    \/ (\E t \in Trackers : TrackAllocation(t)) /\ UNCHANGED <<poolVars, limiterVars, wfailed, tickVars, deckVars, resVars, routeVars, valVars, getStatsVars>>
    \/ (\E t \in Trackers : TrackLoad(t)) /\ UNCHANGED <<poolVars, limiterVars, wfailed, tickVars, deckVars, resVars, routeVars, valVars, getStatsVars>>
    \/ (\E t \in Trackers : TrackCas(t)) /\ UNCHANGED <<poolVars, limiterVars, wfailed, tickVars, deckVars, resVars, routeVars, valVars, getStatsVars>>

SpecMemory == InitM /\ [][NextM]_vars

\* ------------------------------------------------------------------ claims
\* The step just taken is a Submit call (of the task lastSubmit'.task).
SubmitStep == nSubmits' = nSubmits + 1

\* The task of the Submit call just made is accepted exactly once: appended to
\* the buffer, or handed to one worker that was parked in its select.
SubmitAcceptedOnce ==
    /\ accepted' = accepted \cup {lastSubmit'.task.sub}
    /\ \/ /\ taskQueue' = Append(taskQueue, lastSubmit'.task)
          /\ UNCHANGED wtask
       \/ /\ UNCHANGED taskQueue
          /\ \E w \in ParkedWorkers :
                wtask' = [wtask EXCEPT ![w] = lastSubmit'.task]

\* The Submit call just made left the pool as it was.
SubmitChangedNothing ==
    UNCHANGED <<taskQueue, workerVars, statVars, resultChan, accepted,
                dispatched, delivered, dropped, failed, crashed>>

RECURSIVE SumTo(_, _)
\* f[1] + ... + f[n]
SumTo(f, n) == IF n = 0 THEN 0 ELSE f[n] + SumTo(f, n - 1)

\* A worker is inside processTask with a task it received.
InFlight(w) ==
    /\ wpc[w] \in {"process", "route", "count", "counterr", "send"}
    /\ wtask[w] # NilTask

\* Shutdown was never called and all accepted work has finished.
Quiescent ==
    /\ shutdownOnce = "fresh"
    /\ taskQueue = <<>>
    /\ \A w \in Workers : wpc[w] \in {"poll", "parked"}

\* C1 (as claimed): once Shutdown has closed the queue, every Submit call with
\* a valid task returns the PoolClosed error; it does not enqueue, succeed or
\* crash.
C1_SubmitAfterCloseReturnsPoolClosed ==
    [][(SubmitStep /\ queueClosed /\ Validate(lastSubmit'.task) = "nil")
        => /\ lastSubmit'.ret = "worker pool is shutting down"
           /\ ~crashed'
           /\ UNCHANGED <<taskQueue, accepted>>]_vars

\* C2 (as claimed): two Shutdown calls return the same outcome to both
\* callers, and only one of them runs the transition.
C2_ShutdownSameOutcome ==
    /\ (spc["s1"] = "returned" /\ spc["s2"] = "returned")
          => sret["s1"] = sret["s2"]
    /\ Cardinality({c \in ShutdownCallers :
                       spc[c] \in {"close", "cancel", "select"}}) <= 1

\* C3 (as claimed): an Acquire call made with an already-cancelled ctx never
\* takes a token and never returns nil.
C3_CancelledAcquireTakesNoToken ==
    \A a \in Callers :
        preCancelled[a] => (apc[a] # "take" /\ aret[a] # "nil")

\* C4: 0 <= tokens <= maxTokens in every reachable state, and a caller that is
\* about to decrement (rl.tokens--) does so with tokens > 0.
C4_TokenBounds ==
    /\ 0 <= tokens
    /\ tokens <= maxTokens
    /\ \A a \in Callers : apc[a] = "take" => tokens > 0

\* C4 witness: the bucket was emptied by a successful Acquire while another
\* caller waits for a refill.
C4_Witness ==
    /\ tokens = 0
    /\ \E a \in Callers : aret[a] = "nil"
    /\ waiters # <<>>

\* C5: a Submit call whose task fails Validate returns the validation error
\* and changes nothing (queue, workers, counters, results); no task that fails
\* Validate is ever in the queue or with a worker.
C5_InvalidSubmitRejected ==
    /\ [][(SubmitStep /\ Validate(lastSubmit'.task) # "nil")
            => /\ lastSubmit'.ret = "task validation failed"
               /\ SubmitChangedNothing]_vars
    /\ [](/\ \A i \in 1..Len(taskQueue) : Validate(taskQueue[i]) = "nil"
          /\ \A w \in Workers : Validate(wtask[w]) = "nil")

\* C5 witness: an invalid task has just been rejected while an accepted task
\* waits in the queue.
C5_Witness ==
    /\ lastSubmit.ret = "task validation failed"
    /\ Len(taskQueue) = 1

\* C6 (as claimed): while the pool is running, Submit of a valid task returns
\* QueueFull and changes nothing if the queue holds queueSize tasks, and
\* otherwise accepts the task once and returns nil.
C6_FullExactlyAtCapacity ==
    [][(SubmitStep /\ ~queueClosed /\ Validate(lastSubmit'.task) = "nil")
        => IF Len(taskQueue) >= queueSize
           THEN /\ lastSubmit'.ret = "task queue is full"
                /\ SubmitChangedNothing
           ELSE /\ lastSubmit'.ret = "nil"
                /\ SubmitAcceptedOnce]_vars

\* C6 (amended): while the pool is running, Submit of a valid task returns
\* QueueFull and changes nothing if the queue holds queueSize tasks and no
\* worker is parked at its poll, and otherwise accepts the task once (into the
\* buffer, or directly to a parked worker) and returns nil; the queue never
\* holds more than queueSize tasks.
C6_FullUnlessRoomOrParkedWorker ==
    /\ [][(SubmitStep /\ ~queueClosed /\ Validate(lastSubmit'.task) = "nil")
            => IF Len(taskQueue) >= queueSize /\ ParkedWorkers = {}
               THEN /\ lastSubmit'.ret = "task queue is full"
                    /\ SubmitChangedNothing
               ELSE /\ lastSubmit'.ret = "nil"
                    /\ SubmitAcceptedOnce]_vars
    /\ [](Len(taskQueue) <= queueSize)

\* C6 witness: with queueSize 0 a Submit has just returned nil, its task handed
\* to a worker.
C6_Witness ==
    /\ queueSize = 0
    /\ lastSubmit.ret = "nil"
    /\ \E w \in Workers : wtask[w] = lastSubmit.task

\* C7 (as claimed): with a buffered queue, when the pool was never shut down
\* and all work has finished, the results delivered on resultChan are as many
\* as the successful Submit calls, one for each.
C7_DeliveredEqualsAccepted ==
    (Quiescent /\ queueSize > 0) =>
        /\ SumTo(delivered, MaxSubmits) = Cardinality(accepted)
        /\ \A n \in accepted : delivered[n] = 1

\* C7 (amended): every successful Submit call made while the pool is not shut
\* down eventually has its result either delivered on resultChan or dropped
\* because the channel could not take it (unless Shutdown is called first); so
\* when the pool was never shut down and all work has finished, delivered plus
\* dropped results are as many as the successful Submit calls, one for each.
C7_DeliveredOrDropped ==
    /\ [](Quiescent =>
            /\ SumTo(delivered, MaxSubmits) + SumTo(dropped, MaxSubmits)
                  = Cardinality(accepted)
            /\ \A n \in Subs :
                  delivered[n] + dropped[n] = (IF n \in accepted THEN 1 ELSE 0))
    /\ \A n \in Subs :
          (n \in accepted) ~> (\/ delivered[n] + dropped[n] = 1
                               \/ shutdownOnce # "fresh")

\* C7 witness: with a buffered queue all work has finished, one result was
\* delivered and one dropped.
C7_Witness ==
    /\ Quiescent
    /\ queueSize > 0
    /\ \E n \in Subs : delivered[n] = 1
    /\ \E n \in Subs : dropped[n] = 1

\* C8: a submission is received by at most one worker, is in at most one place
\* (the queue or one worker) at a time, and has at most one result.
C8_AtMostOnce ==
    \A n \in Subs :
        /\ dispatched[n] <= 1
        /\ delivered[n] + dropped[n] <= 1
        /\ Cardinality({w \in Workers : wtask[w].sub = n})
             + Cardinality({i \in 1..Len(taskQueue) : taskQueue[i].sub = n}) <= 1
        /\ Cardinality({i \in 1..Len(resultChan) : resultChan[i].sub = n}) <= 1

\* C8 witness: during a shutdown two submissions have each been dispatched
\* and one has its result on the stream.
C8_Witness ==
    /\ queueClosed
    /\ dispatched[1] = 1 /\ dispatched[2] = 1
    /\ delivered[1] = 1

\* C9: if the Shutdown call that runs the transition has returned nil, every
\* worker has terminated, by returning from its loop or by a panic that unwound
\* it, and has run its wg.Done(): the count of live workers is 0.
C9_NilMeansAllWorkersExited ==
    sret["s1"] = "nil" =>
        /\ \A w \in Workers : wpc[w] \in {"exited", "panicked"}
        /\ wgCounter = 0

\* C9 witness: Shutdown returned nil after the pool had processed a task.
C9_Witness ==
    /\ sret["s1"] = "nil"
    /\ totalProcessed >= 1

\* C10 (as claimed): a handler that is in flight when the deadline has elapsed
\* is not terminated; it runs on to its counters and its result.
C10_InFlightHandlerNotTerminated ==
    ~(/\ crashed
      /\ timer = "expired" \/ sret["s1"] = "shutdown timeout exceeded"
      /\ \E w \in Workers : InFlight(w))

\* The tasks whose processing has finished (processTask reached its send).
FinishedCount == SumTo(delivered, MaxSubmits) + SumTo(dropped, MaxSubmits)

\* C11: totalProcessed counts every task a worker has counted (the finished
\* ones and those between the counter and the send) and totalErrors every one of
\* them that had an error, so with no task in flight totalProcessed is the
\* number n of finished tasks and totalErrors the number e of them that failed;
\* neither counter ever decreases.
C11_CountersExact ==
    /\ [](/\ totalProcessed = FinishedCount
               + Cardinality({w \in Workers : wpc[w] \in {"counterr", "send"}})
          /\ totalErrors = Cardinality(failed)
               + Cardinality({w \in Workers : wpc[w] = "send" /\ werr[w] # "nil"})
          /\ (\A w \in Workers : ~InFlight(w))
                => /\ totalProcessed = FinishedCount
                   /\ totalErrors = Cardinality(failed))
    /\ [][totalProcessed' >= totalProcessed /\ totalErrors' >= totalErrors]_vars

\* C11 witness: two tasks have finished, one of them with an error, and no
\* worker is inside processTask.
C11_Witness ==
    /\ \A w \in Workers : ~InFlight(w)
    /\ totalProcessed = 2
    /\ totalErrors = 1
    /\ Cardinality(failed) = 1

\* The result of a task whose type has no handler.
UnknownResult(t) ==
    [sub |-> t.sub, TaskID |-> t.id, Success |-> FALSE,
     Error |-> "unknown task type"]

\* C12: a worker that processes a task whose type has no handler gets the
\* unknown-type error from routeTask, raises totalErrors by exactly one, builds
\* one result with Success = FALSE and that error, which is sent or dropped
\* once, and goes back to its poll; the process does not crash.
C12_UnknownTypeIsCountedNotFatal ==
    /\ [](\A w \in Workers :
            (wtask[w].kind = "other" /\ wpc[w] \in {"count", "counterr", "send"})
               => /\ werr[w] = "unknown task type"
                  /\ TaskResult(w) = UnknownResult(wtask[w]))
    /\ [][\A w \in Workers :
            (wtask[w].kind = "other" /\ wpc'[w] # wpc[w]) =>
               /\ ~crashed'
               /\ wpc[w] = "process" =>
                     wpc'[w] = "route" /\ UNCHANGED <<statVars, resultChan>>
               /\ wpc[w] = "route" =>
                     wpc'[w] = "count" /\ UNCHANGED <<statVars, resultChan>>
               /\ wpc[w] = "count" =>
                     wpc'[w] = "counterr" /\ UNCHANGED totalErrors
               /\ wpc[w] = "counterr" =>
                     wpc'[w] = "send" /\ totalErrors' = totalErrors + 1
               /\ wpc[w] = "send" =>
                     /\ wpc'[w] = "poll"
                     /\ UNCHANGED statVars
                     /\ delivered'[wtask[w].sub] + dropped'[wtask[w].sub] = 1
                     /\ \/ resultChan' = resultChan
                        \/ resultChan' = Append(resultChan, UnknownResult(wtask[w]))]_vars

\* C12 witness: the result of a task of unknown type is on resultChan, the
\* error counter is 1, and a worker is processing the next task.
C12_Witness ==
    /\ ~crashed
    /\ totalErrors = 1
    /\ \E i \in 1..Len(resultChan) : resultChan[i].Error = "unknown task type"
    /\ \E w \in Workers : InFlight(w)

\* C13: a worker whose handler returned an error counts it once, makes its
\* one send and goes back to its poll, without a crash; the error changes no
\* other state than werr (the result's Error) and totalErrors; and a worker
\* that has had a handler fail leaves its loop only through ctx.Done().
C13_HandlerFailureKeepsWorkerLooping ==
    /\ [][\A w \in Workers :
            (werr[w] # "nil" /\ wpc'[w] # wpc[w]) =>
               /\ ~crashed'
               /\ wpc[w] = "count" =>
                     wpc'[w] = "counterr" /\ UNCHANGED totalErrors
               /\ wpc[w] = "counterr" =>
                     wpc'[w] = "send" /\ totalErrors' = totalErrors + 1
               /\ wpc[w] = "send" =>
                     wpc'[w] = "poll" /\ UNCHANGED statVars]_vars
    /\ [](\A w \in wfailed : wpc[w] = "exited" => ctxDone)

\* C13 witness: with the pool running, a worker that has had a handler fail
\* has processed a later task without error and is at its send.
C13_Witness ==
    /\ shutdownOnce = "fresh"
    /\ \E w \in wfailed :
          /\ InFlight(w)
          /\ wpc[w] = "send"
          /\ werr[w] = "nil"
          /\ failed # {}

\* resultChan can take a result now: the collector is parked in its receive or
\* the buffer has room.
ResultChanCanTake == cpc = "parked" \/ Len(resultChan) < queueSize

\* C14: a worker at the send of its result can always take that step; the
\* step sends the result if resultChan can take it and drops it otherwise,
\* once, leaves the counters (already raised for the task) as they are and
\* puts the worker back at its poll.
C14_ResultSendNeverBlocks ==
    /\ [](\A w \in Workers :
            (wpc[w] = "send" /\ ~crashed) =>
               /\ ENABLED processTaskSend(w)
               /\ totalProcessed >= FinishedCount + 1)
    /\ [][\A w \in Workers :
            (wpc[w] = "send" /\ wpc'[w] # "send") =>
               /\ wpc'[w] = "poll"
               /\ wtask'[w] = NilTask
               /\ UNCHANGED statVars
               /\ IF ResultChanCanTake
                  THEN /\ delivered'[wtask[w].sub] = delivered[wtask[w].sub] + 1
                       /\ UNCHANGED dropped
                  ELSE /\ dropped'[wtask[w].sub] = dropped[wtask[w].sub] + 1
                       /\ UNCHANGED <<delivered, resultChan, cpc>>]_vars

\* C14 witness: resultChan is full with nobody receiving, a result has been
\* dropped, both tasks are counted and the workers are back at their poll.
C14_Witness ==
    /\ ~crashed
    /\ queueSize > 0
    /\ Len(resultChan) = queueSize
    /\ cpc # "parked"
    /\ \E n \in Subs : dropped[n] = 1
    /\ totalProcessed = 2
    /\ \A w \in Workers : wpc[w] \in {"poll", "parked"}

\* The lifecycle state of the pool, read from Shutdown's progress.
Lifecycle ==
    CASE shutdownOnce = "fresh" -> "Running"
      [] shutdownOnce = "running" -> "Draining"
      [] OTHER -> IF \E c \in ShutdownCallers :
                        sret[c] = "shutdown timeout exceeded"
                  THEN "TimedOut" ELSE "Stopped"

\* C15: the lifecycle only steps Running -> Draining -> Stopped or TimedOut;
\* a closed queue stays closed, a cancelled ctx stays cancelled, a worker that
\* has exited stays exited, and the queue is closed and ctx cancelled only
\* after Shutdown has begun.
C15_LifecycleOnlyForward ==
    /\ [][Lifecycle' # Lifecycle =>
            \/ Lifecycle = "Running" /\ Lifecycle' = "Draining"
            \/ Lifecycle = "Draining" /\ Lifecycle' \in {"Stopped", "TimedOut"}]_vars
    /\ [][/\ queueClosed => queueClosed'
          /\ ctxDone => ctxDone'
          /\ \A w \in Workers : wpc[w] = "exited" => wpc'[w] = "exited"]_vars
    /\ []((queueClosed \/ ctxDone \/ \E w \in Workers : wpc[w] = "exited")
             => Lifecycle # "Running")

\* C15 witness: the pool is TimedOut with the queue closed, ctx cancelled, one
\* worker exited and one still inside processTask.
C15_Witness ==
    /\ Lifecycle = "TimedOut"
    /\ queueClosed /\ ctxDone
    /\ \E w \in Workers : wpc[w] = "exited"
    /\ \E w \in Workers : InFlight(w)

\* C16: until Shutdown is called every worker started by NewWorkerPool is
\* alive (none has exited and the process has not crashed), whatever tasks
\* were processed; and the number of live workers never increases.
C16_LiveWorkers ==
    /\ [](shutdownOnce = "fresh" =>
             /\ wgCounter = Cardinality(Workers)
             /\ ~crashed)
    /\ [][wgCounter' <= wgCounter]_vars

\* C16 witness: the pool is running, two tasks have finished with an error,
\* one of them of unknown type, and both workers are alive.
C16_Witness ==
    /\ shutdownOnce = "fresh"
    /\ Cardinality(failed) = 2
    /\ \E i \in 1..Len(resultChan) : resultChan[i].Error = "unknown task type"
    /\ wgCounter = Cardinality(Workers)

\* The smaller of two numbers.
Min(a, b) == IF a <= b THEN a ELSE b

\* C17: a refill tick raises tokens by exactly one when tokens < maxTokens and
\* leaves it unchanged when tokens = maxTokens; after k ticks with no token
\* taken in between, tokens = min(maxTokens, tokens before the ticks + k).
C17_RefillOnePerTick ==
    /\ [][ticks' = ticks + 1 =>
            tokens' = (IF tokens < maxTokens THEN tokens + 1 ELSE tokens)]_vars
    /\ [](tokens = Min(maxTokens, tokensBase + ticks))

\* C17 witness: from an empty bucket of size 2, three ticks have passed and
\* the bucket is full.
C17_Witness ==
    /\ maxTokens = 2
    /\ tokensBase = 0
    /\ ticks = 3
    /\ tokens = 2

\* The set of the elements of a sequence.
Range(q) == {q[i] : i \in 1..Len(q)}

\* C18: the deck newDeck returns has 16 cards, one for each pair of a suit and
\* a value, without a duplicate, suit by suit in the order of cardSuits and
\* within a suit in the order of cardValues; the first is "Ace of Spades" and
\* the last "Four of Clubs".
C18_NewDeckSuitMajor ==
    dpc = "newDeck" =>
        /\ Len(cards) = 16
        /\ Cardinality(Range(cards)) = 16
        /\ \A i \in 1..4 : \A j \in 1..4 :
              cards[4 * (i - 1) + j] = CardName(cardValues[j], cardSuits[i])
        /\ cards[1] = <<"Ace", " of ", "Spades">>
        /\ cards[Len(cards)] = <<"Four", " of ", "Clubs">>

\* C18 witness: newDeck has just returned its deck.
C18_Witness ==
    /\ dpc = "newDeck"
    /\ Len(cards) = 16
    /\ cards[2] = <<"Two", " of ", "Spades">>

\* No card name of the deck contains a comma.
NoComma(cs) == \A i \in 1..Len(cs) : \A k \in 1..Len(cs[i]) : cs[i][k] # ","

\* C19 (as claimed): for a deck whose card names contain no comma,
\* newDeckFromFile after a saveToFile that wrote the whole text returns the
\* same cards in the same order.
C19_SaveLoadRoundTrip ==
    (dpc = "newDeckFromFile" /\ NoComma(cards) /\ file.data = toString(cards))
        => loaded = cards

\* C20 (as claimed): a worker that evaluates its select with a task in the
\* queue and ctx already cancelled takes the ctx.Done() case and exits; once
\* ctx is cancelled no worker receives a task from the queue.
C20_ShutdownBranchHasPriority ==
    /\ [][\A w \in Workers :
            (wpc[w] = "poll" /\ ctxDone /\ Len(taskQueue) > 0 /\ wpc'[w] # wpc[w])
               => (wpc'[w] = "exited" /\ UNCHANGED taskQueue)]_vars
    /\ [][ctxDone => UNCHANGED dispatched]_vars

\* C21 (as claimed): a task accepted by Submit before Shutdown is called is not
\* left in the queue once all workers have exited: every such task was
\* dispatched to a worker.
C21_AcceptedTasksDrained ==
    (\A w \in Workers : wpc[w] = "exited") =>
        /\ taskQueue = <<>>
        /\ \A n \in accepted : dispatched[n] = 1

\* C22 (as claimed): the transition closes the submission path, then fires the
\* cancel signal, and only then starts the deadline timer: the timer is not
\* started while the signal has not fired; and a worker that has observed the
\* signal finds the queue closed.
C22_CloseCancelThenTimer ==
    /\ timer # "none" => ctxDone
    /\ ctxDone => queueClosed
    /\ \A w \in Workers : wpc[w] = "exited" => queueClosed

\* C22 (amended): the transition closes the submission path, then starts the
\* deadline timer, and only then fires the cancel signal: the timer runs only
\* with the queue closed, the signal fires only with the queue closed and the
\* timer started, and the step that fires it changes neither; no worker
\* observes the signal (and exits) before the queue is closed.
C22_CloseTimerThenCancel ==
    /\ [](timer # "none" => queueClosed)
    /\ [](ctxDone => (queueClosed /\ timer # "none"))
    /\ [](\A w \in Workers : wpc[w] = "exited" => (queueClosed /\ ctxDone))
    /\ [][(~queueClosed /\ queueClosed') => (~ctxDone' /\ timer = "none")]_vars
    /\ [][(~ctxDone /\ ctxDone') =>
             (queueClosed /\ timer \in {"armed", "expired"}
              /\ UNCHANGED <<queueClosed, timer>>)]_vars

\* C22 witness: the queue is closed and the deadline has already passed while
\* the cancel signal has not fired yet.
C22_Witness ==
    /\ queueClosed
    /\ timer = "expired"
    /\ ~ctxDone
    /\ \E c \in ShutdownCallers : spc[c] = "cancel"

\* C23 (as claimed): an Acquire call whose ctx is cancelled while it waits for
\* a token returns the ctx error without taking a token: it is never at
\* rl.tokens-- and never returns nil.
C23_CancelledWaiterTakesNoToken ==
    \A a \in Callers :
        cancelledWaiting[a] => (apc[a] # "take" /\ aret[a] # "nil")

\* C24: with the ticker firing forever, every Acquire call whose ctx is not
\* cancelled returns nil in the end, whatever the other callers do (wait at
\* the same time, take the token a woken waiter was signalled for, or be
\* cancelled after they were woken); and whenever a token is in the bucket
\* while a caller waits, a caller that will look at the bucket is on its way.
C24_NoLostWakeup ==
    /\ \A a \in Callers :
          (apc[a] # "idle") ~> (actx[a] \/ (apc[a] = "idle" /\ aret[a] = "nil"))
    /\ []((tokens > 0 /\ waiters # <<>>)
             => \E a \in Callers : apc[a] \in {"lock", "check", "take"})

\* C24 witness: two callers waited at once; the one that waited longest was
\* cancelled and then woken by a tick, and the other, not cancelled, still
\* waits.
C24_Witness ==
    \E a \in Callers : \E b \in Callers \ {a} :
        /\ cancelledWaiting[a]
        /\ apc[a] = "lock"
        /\ waiters = <<b>>
        /\ ~actx[b]
        /\ tokens > 0

\* The callers a step takes out of rl.cond.Wait.
Woken == {a \in Callers : apc[a] = "waiting" /\ apc'[a] # "waiting"}

\* C25: a refill tick that finds tokens < maxTokens adds one token and wakes
\* the caller that has waited longest, if any, and no other waiter; a tick
\* that finds tokens = maxTokens changes neither the tokens nor any caller.
C25_TickWakesAtMostOne ==
    [][ticks' = ticks + 1 =>
          IF tokens < maxTokens
          THEN /\ tokens' = tokens + 1
               /\ Cardinality(Woken) <= 1
               /\ Woken = (IF waiters = <<>> THEN {} ELSE {Head(waiters)})
               /\ Len(waiters') = Len(waiters) - Cardinality(Woken)
          ELSE UNCHANGED <<tokens, apc, waiters>>]_vars

\* C25 witness: two callers waited on an empty bucket; one tick has added a
\* token and woken one of them, and the other still waits.
C25_Witness ==
    /\ tokensBase = 0
    /\ ticks = 1
    /\ tokens = 1
    /\ Len(waiters) = 1
    /\ \E a \in Callers : apc[a] = "lock" /\ ~actx[a]
    /\ \A a \in Callers : acalls[a] >= 1

\* The result task t must have when routeTask returned e for it.
ResultOf(t, e) ==
    [TaskID |-> t.id, Success |-> (e = "nil"), Error |-> e,
     Metadata |-> ExtractMetadata(t)]

\* C26: the value sent on resultChan for a task has the task's ID, Success
\* true exactly when routeTask returned no error, that error, and the task's
\* own metadata, whatever the object held before; while the worker is inside
\* routeTask its object holds the task's ID and nothing of an earlier task;
\* the object has the task's fields from the return of routeTask on; the
\* results in the channel are those values; and a value that was sent stays as
\* it was when its object is used again.
C26_ResultFieldsOfOwnTask ==
    /\ [](\A s \in sent : s.val = ResultOf(s.task, s.err))
    /\ [](\A w \in Workers :
            wpc[w] = "route" =>
               /\ wres[w] \in Objects
               /\ robj[wres[w]] = [TaskID |-> wtask[w].id, Success |-> FALSE,
                                   Error |-> "nil", Metadata |-> NoMetadata])
    /\ [](\A w \in Workers :
            wpc[w] \in {"count", "counterr", "send"} =>
               /\ wres[w] \in Objects
               /\ robj[wres[w]] = ResultOf(wtask[w], werr[w]))
    /\ [](\A i \in 1..Len(resultChan) :
            \E s \in sent :
               /\ s.task.sub = resultChan[i].sub
               /\ s.val.TaskID = resultChan[i].TaskID
               /\ s.val.Success = resultChan[i].Success
               /\ s.val.Error = resultChan[i].Error)
    /\ [][sent \subseteq sent']_vars

\* C26 witness: one object has served two tasks, the first failed and the
\* second succeeded, and both results were sent.
C26_Witness ==
    \E o \in Objects : \E s1 \in sent : \E s2 \in sent :
        /\ robj[o] = ZeroResult
        /\ s1.err # "nil"
        /\ s2.err = "nil"
        /\ s1.task.kind # s2.task.kind
        /\ \E p \in resultPool : robj[p] = s2.val

\* The objects the workers hold.
HeldObjects == {wres[w] : w \in Workers} \ {"none"}

\* C27: a worker inside processTask holds one object of the pool and outside
\* it holds none, whether the task succeeded, its handler failed, its kind had
\* no handler or its result was dropped; the step that leaves processTask puts
\* that object, which was not in the pool, back into it; no two workers hold
\* the same object and no held object lies in the pool.
C27_ResultObjectReturnedOnce ==
    /\ [](\A w \in Workers :
            IF wpc[w] \in {"route", "count", "counterr", "send"}
            THEN wres[w] \in Objects
            ELSE wres[w] = "none")
    /\ [](\A w1 \in Workers : \A w2 \in Workers \ {w1} :
            wres[w1] = "none" \/ wres[w1] # wres[w2])
    /\ [](HeldObjects \cap resultPool = {})
    /\ [][\A w \in Workers :
            (wpc[w] = "send" /\ wpc'[w] # "send") =>
               /\ wres[w] \notin resultPool
               /\ resultPool' = resultPool \cup {wres[w]}
               /\ wres'[w] = "none"]_vars
    /\ [][\A w \in Workers :
            (wpc[w] = "process" /\ wpc'[w] # "process" /\ ~crashed') =>
               /\ wres'[w] \in Objects
               /\ wres'[w] \notin resultPool'
               /\ wres'[w] \notin HeldObjects]_vars

\* C27 witness: both objects are back in the pool after a failed task, a task
\* of unknown kind and a dropped result, with both workers out of processTask.
C27_Witness ==
    /\ resultPool = Objects
    /\ \A w \in Workers : wres[w] = "none" /\ wpc[w] \in {"poll", "parked"}
    /\ \E n \in failed : dropped[n] = 1
    /\ \E s \in sent : s.err = "nil"

\* C28 (as claimed), for the goroutines of the pool: no goroutine is suspended
\* in a wait on one resource while it holds the lock of another.  The workers,
\* the collector and Submit hold no lock; the lock here is the mutex of
\* shutdownOnce, and the wait the select of Shutdown on done and the deadline.
C28_NoLockHeldAcrossWait ==
    \A c \in ShutdownCallers : c \in OnceLockHolders => ~ShutdownWaits(c)

\* C28, the part about the limiter, which holds: a caller suspended in
\* rl.cond.Wait, or blocked on rl.mu, does not hold rl.mu; the goroutine that
\* holds rl.mu waits for nothing and can always take its next step; so rl.mu
\* is always released again, no caller stays blocked on rl.mu forever, and no
\* caller stays in Wait forever (ticks go on and take the lock).
C28_LimiterLockNotHeldAcrossWait ==
    /\ [](\A a \in Callers : apc[a] \in {"idle", "lock", "waiting"} => mu # a)
    /\ [](mu # "free" =>
             /\ mu \in Callers
             /\ apc[mu] \in {"check", "take"}
             /\ ENABLED acquireNext(mu))
    /\ (mu # "free") ~> (mu = "free")
    /\ \A a \in Callers : (apc[a] = "lock") ~> (apc[a] # "lock")
    /\ \A a \in Callers : (apc[a] = "waiting") ~> (apc[a] # "waiting")

\* C28 witness: one caller is suspended in Wait with its ctx cancelled while
\* the other holds rl.mu and finds the bucket empty.
C28_Witness ==
    \E a \in Callers : \E b \in Callers \ {a} :
        /\ apc[a] = "waiting"
        /\ actx[a]
        /\ mu = b
        /\ apc[b] = "check"
        /\ tokens = 0

\* The kind tags that have a handler.
HandledKinds == {"image_processing", "data_analysis"}

\* C29 (as claimed): two tasks that report the same kind tag are given to the
\* same handler, and routeTask returns the unknown-type error only for a task
\* whose kind tag has no handler.
C29_RoutedByKindTag ==
    /\ \A i \in Calls : \A j \in Calls :
          (/\ rhandler[i] # "pending" /\ rhandler[j] # "pending"
           /\ GetType(rtask[i]) = GetType(rtask[j]))
             => rhandler[i] = rhandler[j]
    /\ \A i \in Calls :
          (rhandler[i] = "none" \/ rerr[i] = "unknown task type")
             => GetType(rtask[i]) \notin HandledKinds

\* C30: with queueSize 0 and the pool running, Submit of a valid task returns
\* nil exactly when a worker is parked at its queue poll, and then that worker
\* has the task and is in processTask without the task passing through the
\* buffer; with no worker parked it returns the queue-full error and changes
\* nothing; the buffer is always empty.
C30_CapacityZeroIsHandOff ==
    /\ [][(SubmitStep /\ queueSize = 0 /\ ~queueClosed
              /\ Validate(lastSubmit'.task) = "nil")
            => IF ParkedWorkers # {}
               THEN /\ lastSubmit'.ret = "nil"
                    /\ \E w \in ParkedWorkers :
                          /\ wpc'[w] = "process"
                          /\ wtask'[w] = lastSubmit'.task
                          /\ \A v \in Workers \ {w} :
                                wpc'[v] = wpc[v] /\ wtask'[v] = wtask[v]
                    /\ dispatched'[lastSubmit'.task.sub] = 1
                    /\ UNCHANGED taskQueue
               ELSE /\ lastSubmit'.ret = "task queue is full"
                    /\ SubmitChangedNothing]_vars
    /\ [](queueSize = 0 => taskQueue = <<>>)

\* C30 witness: with queueSize 0 a Submit was handed to a parked worker and the
\* next Submit has just been refused although the other worker is idle: it had
\* not yet parked at its poll.
C30_Witness ==
    /\ queueSize = 0
    /\ ~queueClosed
    /\ lastSubmit.ret = "task queue is full"
    /\ accepted = {1}
    /\ \E w \in Workers : wpc[w] = "poll" /\ wtask[w] = NilTask

\* The required fields of the task's kind that are empty.
MissingFields(t) ==
    CASE t.kind \in {"image_processing", "image_processing_ptr"} ->
           (IF t.id = "" THEN {"ID"} ELSE {}) \cup (IF t.req = "" THEN {"ImageURL"} ELSE {})
      [] t.kind \in {"data_analysis", "data_analysis_ptr"} ->
           (IF t.id = "" THEN {"ID"} ELSE {}) \cup (IF t.req = "" THEN {"Dataset"} ELSE {})
      [] OTHER -> {}

\* C31 (as claimed): Validate returns an error exactly when a required field
\* of the task's kind is empty, and the error identifies the missing fields:
\* two tasks with different missing fields get different errors.
C31_ValidateNamesMissingFields ==
    /\ \A i \in Calls :
          verr[i] # "pending" => ((verr[i] # "nil") <=> (MissingFields(vtask[i]) # {}))
    /\ \A i \in Calls : \A j \in Calls :
          (/\ verr[i] \notin {"pending", "nil"}
           /\ verr[j] \notin {"pending", "nil"}
           /\ MissingFields(vtask[i]) # MissingFields(vtask[j]))
             => verr[i] # verr[j]

\* C32 (as claimed): a worker in processTask has a task that a successful
\* Submit put in the queue, never the nil task a closed queue yields.
C32_NoNilTaskDispatched ==
    \A w \in Workers :
        wpc[w] \in {"process", "route", "count", "counterr", "send"} =>
            /\ wtask[w] # NilTask
            /\ wtask[w].sub \in accepted

\* C33 (as claimed): every pair GetStats returns has
\* 0 <= errors <= processed.
C33_StatsErrorsAtMostProcessed ==
    gpc = "returned" => (0 <= gerrors /\ gerrors <= gprocessed)

\* C34: in every reachable state totalErrors <= totalProcessed (and both are
\* at least 0): a worker raises totalProcessed for a task before it raises
\* totalErrors for it, so the errors counted are those of tasks already
\* counted as processed.
C34_ErrorsAtMostProcessed ==
    /\ 0 <= totalErrors
    /\ totalErrors <= totalProcessed
    /\ totalErrors + Cardinality({w \in Workers : wpc[w] = "counterr"})
          <= totalProcessed

\* C34 witness: both counters are 2 (every task counted so far failed) while
\* Shutdown is in progress.
C34_Witness ==
    /\ totalProcessed = 2
    /\ totalErrors = 2
    /\ shutdownOnce = "running"

\* C35: allocations is the number of TrackAllocation calls made; peakMemory
\* never decreases and never exceeds the largest size passed so far; and once
\* every call has returned peakMemory is the largest size passed so far, 0 if
\* none was positive: no size is lost to a concurrent compare-and-swap.
C35_PeakIsLargestSize ==
    /\ [](allocations = tcalls["t1"] + tcalls["t2"])
    /\ [](peakMemory <= largest)
    /\ []((\A t \in Trackers : tpc[t] = "idle") => peakMemory = largest)
    /\ [][peakMemory' >= peakMemory]_vars

\* C35 witness: a caller is about to compare-and-swap with a value of
\* peakMemory that another caller has replaced meanwhile by a smaller size than
\* its own; its swap will fail and it must try again.
C35_Witness ==
    \E t \in Trackers :
        /\ tpc[t] = "cas"
        /\ tcur[t] # peakMemory
        /\ tsize[t] > peakMemory
        /\ peakMemory > 0

\* The number of times card c occurs in the deck cs.
Occurrences(cs, c) == Cardinality({i \in 1..Len(cs) : cs[i] = c})

\* C36: a call of shuffle on a deck of at least one card returns normally and
\* leaves a deck of the same length holding the same cards, each as many times
\* as before.
C36_ShuffleIsPermutation ==
    [][(dpc' \in {"shuffle", "panic"} /\ dpc \notin {"shuffle", "panic"}
        /\ Len(cards) >= 1)
       => /\ dpc' = "shuffle"
          /\ Len(cards') = Len(cards)
          /\ \A i \in 1..Len(cards) :
                Occurrences(cards', cards[i]) = Occurrences(cards, cards[i])]_vars

====
